---- MODULE Spec2Model ----
(***************************************************************************)
(* A model of querymate's query compiler: the pagination arithmetic and    *)
(* the grouped-query loop of Querymate (core/querymate.py), and the        *)
(* selection planner, filter/sort application and row reconstruction of    *)
(* QueryBuilder (core/query_builder.py).                                   *)
(***************************************************************************)
EXTENDS Integers, Sequences, FiniteSets, TLC

VARIABLES
    limit,          \* Querymate.limit  (Null stands for Python's None)
    offset,         \* Querymate.offset (Null stands for Python's None)
    p_total,        \* the count handed to _pagination / _pagination_for_group
    p_call,         \* which pagination function produced p_info
    p_info,         \* the PaginationInfo it returned
    db_groups,      \* the store: the true row count of each group, in key order
    group_keys,     \* run_grouped: the answer of get_distinct_group_keys
    g_pc,           \* run_grouped: position ("start", "loop", "done")
    g_i,            \* run_grouped: index of the next group of group_keys
    total_fetched,  \* run_grouped: total_fetched
    truncated,      \* run_grouped: truncated
    groups,         \* run_grouped: groups (list of GroupResult)
    group_by,       \* Querymate.group_by (Null stands for Python's None)
    g_calls,        \* run_grouped: the calls made on the data store, in order
    g_err,          \* run_grouped: the exception it raised ("" for none)
    a_group_keys,   \* run_grouped_async: group_keys
    a_pc,           \* run_grouped_async: position
    a_i,            \* run_grouped_async: index of the next group
    a_total_fetched, \* run_grouped_async: total_fetched
    a_truncated,    \* run_grouped_async: truncated
    a_groups,       \* run_grouped_async: groups
    a_calls,        \* run_grouped_async: the calls made on the data store
    a_err,          \* run_grouped_async: the exception it raised
    model,          \* QueryBuilder.model: the root entity type
    args,           \* the arguments of the calls made on the builder
    plan,           \* the calls still to be made on the builder, in order
    qb,             \* QueryBuilder.select / filter / sort / limit / offset
    query,          \* QueryBuilder.query: the composed query
    b_err,          \* the exception a call on the builder raised ("" for none)
    b_arg,          \* the operator or path segment that exception names, if any
    rows,           \* the rows the store returned for the query
    row_roots,      \* the primary key of the root entity each of those rows is of
    r_i,            \* reconstruct_objects: index of the next row
    reconstructed,  \* reconstruct_objects: the objects built so far, by id
    r_log,          \* the fields the last decoded row's slots were assigned to
    eq_by,          \* what == on two entity objects compares in this build
    serialized,     \* what QueryBuilder.serialize returned for the fetched objects
    include_pagination, \* Querymate.include_pagination
    run_call,       \* the call made on Querymate.run / run_paginated, with its keywords
    run_result      \* what that call returned or raised

pageVars == <<p_total, p_call, p_info>>
groupVars == <<db_groups, group_by, group_keys, g_pc, g_i, total_fetched,
               truncated, groups, g_calls, g_err>>
asyncVars == <<a_group_keys, a_pc, a_i, a_total_fetched, a_truncated, a_groups,
               a_calls, a_err>>
buildVars == <<model, args, plan, qb, query, b_err, b_arg>>
reconVars == <<rows, row_roots, r_i, reconstructed, r_log, eq_by, serialized>>
runVars == <<include_pagination, run_call, run_result>>
vars == <<limit, offset, pageVars, groupVars, asyncVars, buildVars, reconVars,
          runVars>>

\* What the pagination, grouping and builder operations leave alone.
notPage == <<groupVars, asyncVars, buildVars, reconVars, runVars>>
notGroup == <<limit, offset, pageVars, buildVars, reconVars, runVars>>
notBuild == <<limit, offset, pageVars, groupVars, asyncVars, runVars>>

-----------------------------------------------------------------------------
(* Bounds of the model and constants of the program *)

MaxTotal == 25
MaxSize == 6
MaxOffset == 30
MaxGroups == 4
MaxBoth == 2

DEFAULT_LIMIT == 10
MAX_LIMIT == 200
DEFAULT_OFFSET == 0

\* Python's None, kept apart from every count, limit, offset, page number and
\* column value (also from the negative limits and offsets a caller may pass).
Null == 0 - 1000000

\* The true totals a group of the store may have (a key returned by the
\* distinct-keys query has at least one row).
GroupTotals == {1, 50, 100, 150, 250, 500}
\* The limits and offsets a grouped request is made with (limit is validated
\* to be None or in 1..MAX_LIMIT, offset to be None or >= 0).
GroupLimits == {Null, 1, 50, 100, 150, MAX_LIMIT}
GroupOffsets == {Null, 0, 50}

Min(a, b) == IF a < b THEN a ELSE b
Max(a, b) == IF a > b THEN a ELSE b

\* Python's `x or d` for an optional integer: None and 0 are falsy.
OrDefault(x, d) == IF x = Null \/ x = 0 THEN d ELSE x

RECURSIVE SumSeq(_)
SumSeq(s) == IF s = <<>> THEN 0 ELSE Head(s) + SumSeq(Tail(s))

SeqsUpTo(S, n) == UNION {[1..k -> S] : k \in 0..n}

-----------------------------------------------------------------------------
(* Pagination: Querymate._pagination and Querymate._pagination_for_group *)

NoInfo ==
    [total |-> 0, page |-> 0, size |-> 0, pages |-> 0,
     previous_page |-> Null, next_page |-> Null]

\* pages = (total + size - 1) // size if size > 0 else 1 ; pages = max(1, pages)
PagesUnclamped(total, size) ==
    IF size > 0 THEN (total + size - 1) \div size ELSE 1

PagesNoFloor(total, size) == PagesUnclamped(total, size)
PaginationPages(total, size) == Max(1, PagesUnclamped(total, size))

\* computed_page = (offset // size) + 1 if size > 0 else 1
ComputedPage(off, size) == IF size > 0 THEN (off \div size) + 1 ELSE 1

\* page = max(1, min(computed_page, pages))
PageNoClamp(computed, pages) == Max(1, computed)
ClampPage(computed, pages) == Max(1, Min(computed, pages))

PreviousPage(page) == IF page > 1 THEN page - 1 ELSE Null
NextPage(page, pages) == IF page < pages THEN page + 1 ELSE Null

PaginationInfo(total, size, off) ==
    LET pages == PaginationPages(total, size)
        page == ClampPage(ComputedPage(off, size), pages)
    IN  [total |-> total, page |-> page, size |-> size, pages |-> pages,
         previous_page |-> PreviousPage(page),
         next_page |-> NextPage(page, pages)]

\* Querymate._pagination(total): size and offset come from the descriptor.
Pagination(total) ==
    PaginationInfo(total, OrDefault(limit, DEFAULT_LIMIT),
                   OrDefault(offset, DEFAULT_OFFSET))

\* Querymate._pagination_for_group(total, limit, offset)
PaginationForGroup(total, lim, off) == PaginationInfo(total, lim, off)

CallPagination ==
    /\ p_call = "none"
    /\ p_call' = "_pagination"
    /\ p_info' = Pagination(p_total)
    /\ UNCHANGED <<limit, offset, p_total, notPage>>

\* _pagination_for_group as run_grouped calls it (querymate.py 495-499):
\* limit = self.limit or DEFAULT_LIMIT, offset = self.offset or 0.
CallPaginationForGroup ==
    /\ p_call = "none"
    /\ p_call' = "_pagination_for_group"
    /\ p_info' = PaginationForGroup(p_total, OrDefault(limit, DEFAULT_LIMIT),
                                    OrDefault(offset, 0))
    /\ UNCHANGED <<limit, offset, p_total, notPage>>

BuildIdle ==
    /\ model = ""
    /\ args = <<>>
    /\ plan = <<>>
    /\ qb = <<>>
    /\ query = <<>>
    /\ b_err = ""
    /\ b_arg = ""

ReconIdle ==
    /\ rows = <<>>
    /\ row_roots = <<>>
    /\ r_i = 0
    /\ reconstructed = <<>>
    /\ r_log = <<>>
    /\ eq_by = ""
    /\ serialized = <<>>

AsyncIdle ==
    /\ a_group_keys = <<>>
    /\ a_pc = "idle"
    /\ a_i = 0
    /\ a_total_fetched = 0
    /\ a_truncated = FALSE
    /\ a_groups = <<>>
    /\ a_calls = <<>>
    /\ a_err = ""

GroupIdle ==
    /\ db_groups = <<>>
    /\ group_by = Null
    /\ group_keys = <<>>
    /\ g_pc = "idle"
    /\ g_i = 0
    /\ total_fetched = 0
    /\ truncated = FALSE
    /\ groups = <<>>
    /\ g_calls = <<>>
    /\ g_err = ""
    /\ AsyncIdle

PageIdle ==
    /\ p_total = 0
    /\ p_call = "idle"
    /\ p_info = NoInfo

\* No call of run / run_paginated is being modelled.
NotCalled == [method |-> "", force_pagination |-> ""]
NoResult == [raised |-> "", shape |-> "", items |-> 0, pagination |-> NoInfo,
             query_limit |-> Null]
RunIdle ==
    /\ include_pagination = FALSE
    /\ run_call = NotCalled
    /\ run_result = NoResult

InitPage ==
    /\ limit \in {Null} \cup (1..MaxSize)
    /\ offset \in {Null} \cup (0..MaxOffset)
    /\ p_total \in 0..MaxTotal
    /\ p_call = "none"
    /\ p_info = NoInfo
    /\ GroupIdle
    /\ BuildIdle
    /\ ReconIdle
    /\ RunIdle

NextPageSpec == CallPagination \/ CallPaginationForGroup

SpecPage == InitPage /\ [][NextPageSpec]_vars

-----------------------------------------------------------------------------
(* Pagination claims *)

\* ceil(total/size) and floor(off/size), stated without the code's arithmetic.
CeilDiv(total, size) ==
    CHOOSE n \in 0..total : n * size >= total /\ (n = 0 \/ (n - 1) * size < total)
FloorDiv(off, size) ==
    CHOOSE q \in 0..off : q * size <= off /\ off < (q + 1) * size

\* The size and offset a pagination call works with.
ReqSize == IF limit = Null THEN DEFAULT_LIMIT ELSE limit
ReqOffset == IF offset = Null THEN 0 ELSE offset

\* C5: for every total >= 0, size >= 1 and offset >= 0, _pagination and
\* _pagination_for_group return pages = max(1, ceil(total/size)) and
\* page = clamp(floor(offset/size)+1, 1, pages), hence 1 <= page <= pages;
\* an offset beyond the total gives the last page, and total = 0 gives
\* pages = 1 and page = 1.
C5_PaginationLaw ==
    p_call \in {"_pagination", "_pagination_for_group"} =>
        LET wantPages == Max(1, CeilDiv(p_total, ReqSize))
            wantPage == Max(1, Min(FloorDiv(ReqOffset, ReqSize) + 1, wantPages))
        IN  /\ p_info.total = p_total
            /\ p_info.size = ReqSize
            /\ p_info.pages = wantPages
            /\ p_info.page = wantPage
            /\ 1 <= p_info.page /\ p_info.page <= p_info.pages
            /\ (ReqOffset > p_total => p_info.page = p_info.pages)
            /\ (p_total = 0 => p_info.pages = 1 /\ p_info.page = 1)

C5_Witness ==
    /\ p_call = "_pagination_for_group"
    /\ ReqOffset > p_total
    /\ p_info.pages > 2
    /\ p_info.page = p_info.pages

\* C6: in every PaginationInfo, previous_page is null iff page = 1 and
\* otherwise is page - 1; next_page is null iff page = pages and otherwise
\* is page + 1.
C6_Neighbours ==
    p_call \in {"_pagination", "_pagination_for_group"} =>
        /\ (p_info.previous_page = Null <=> p_info.page = 1)
        /\ (p_info.previous_page # Null => p_info.previous_page = p_info.page - 1)
        /\ (p_info.next_page = Null <=> p_info.page = p_info.pages)
        /\ (p_info.next_page # Null => p_info.next_page = p_info.page + 1)

C6_Witness ==
    /\ p_call = "_pagination"
    /\ p_info.previous_page # Null
    /\ p_info.next_page # Null

-----------------------------------------------------------------------------
(* Grouped queries: Querymate.run_grouped / run_grouped_async *)

\* QueryBuilder.get_distinct_group_keys: each distinct group key with its
\* true count, ordered by key.  A key is the group's index in db_groups.
GetDistinctGroupKeys == db_groups

\* QueryBuilder.fetch_for_group(group_key, limit, offset): up to `limit` rows
\* of the group, after skipping `offset` rows.  A row is named by its rank
\* within the group.
FetchForGroup(key, lim, off) ==
    LET avail == Max(0, db_groups[key] - off)
        n == Min(lim, avail)
    IN  [k \in 1..n |-> off + k]

\* per_group_limit = self.limit or settings.DEFAULT_LIMIT
PerGroupLimit == OrDefault(limit, DEFAULT_LIMIT)
\* offset = self.offset or 0
GroupOffset == OrDefault(offset, 0)

\* remaining = max_total - total_fetched
\* effective_limit = min(per_group_limit, remaining)
EffectiveLimitUncapped(fetched) == PerGroupLimit
EffectiveLimit(fetched) == Min(PerGroupLimit, MAX_LIMIT - fetched)

\* if len(serialized) < effective_limit and effective_limit < per_group_limit
HitLimitMidGroup(n, eff) == n < eff /\ eff < PerGroupLimit

\* A group entry whose pagination is sized by the limit the fetch was made with.
GroupResultSizedByFetch(key, items) ==
    [key |-> key, items |-> items,
     pagination |-> PaginationForGroup(group_keys[key],
                                       EffectiveLimit(total_fetched), GroupOffset)]

\* The group entry appended for one fetched group.
GroupResult(key, items) ==
    [key |-> key, items |-> items,
     pagination |-> PaginationForGroup(group_keys[key], PerGroupLimit, GroupOffset)]

\* The calls run_grouped makes on the data store, as the store sees them.
DistinctKeysCall == [op |-> "get_distinct_group_keys", key |-> 0, limit |-> 0, offset |-> 0]
FetchCall(key, lim, off) ==
    [op |-> "fetch_for_group", key |-> key, limit |-> lim, offset |-> off]

\* _get_group_config: a descriptor already bound to a grouping field.
GetGroupConfigUnchecked == ""

\* _get_group_config: if self.group_by is None: raise ValueError(...)
GetGroupConfig == IF group_by = Null THEN "ValueError" ELSE ""

\* The prologue: _get_group_config(), then the distinct-keys query.  (build,
\* between the two, is given a select, filter and sort it accepts.)
RunGroupedStart ==
    /\ g_pc = "start"
    /\ IF GetGroupConfig # ""
       THEN /\ g_err' = GetGroupConfig
            /\ g_pc' = "raised"
            /\ UNCHANGED <<group_keys, total_fetched, truncated, groups, g_i,
                           g_calls>>
       ELSE /\ g_calls' = Append(g_calls, DistinctKeysCall)
            /\ group_keys' = GetDistinctGroupKeys
            /\ total_fetched' = 0
            /\ truncated' = FALSE
            /\ groups' = <<>>
            /\ g_i' = 1
            /\ g_pc' = "loop"
            /\ UNCHANGED g_err
    /\ UNCHANGED <<notGroup, asyncVars, db_groups, group_by>>

\* A loop that never leaves before its last group.
NeverBreakBeforeGroup(fetched) == FALSE

\* if total_fetched >= max_total: truncated = True; break
\* if effective_limit <= 0:       truncated = True; break
BreakBeforeGroup(fetched) ==
    fetched >= MAX_LIMIT \/ EffectiveLimit(fetched) <= 0

GroupLoopBreakNoFlag ==
    /\ g_pc = "loop"
    /\ g_i <= Len(group_keys)
    /\ BreakBeforeGroup(total_fetched)
    /\ truncated' = truncated
    /\ g_pc' = "done"
    /\ UNCHANGED <<notGroup, asyncVars, db_groups, group_by, group_keys, g_i,
                   total_fetched, groups, g_calls, g_err>>

GroupLoopBreak ==
    /\ g_pc = "loop"
    /\ g_i <= Len(group_keys)
    /\ BreakBeforeGroup(total_fetched)
    /\ truncated' = TRUE
    /\ g_pc' = "done"
    /\ UNCHANGED <<notGroup, asyncVars, db_groups, group_by, group_keys, g_i,
                   total_fetched, groups, g_calls, g_err>>

GroupLoopBody ==
    /\ g_pc = "loop"
    /\ g_i <= Len(group_keys)
    /\ ~BreakBeforeGroup(total_fetched)
    /\ LET eff == EffectiveLimit(total_fetched)
           items == FetchForGroup(g_i, eff, GroupOffset)
       IN  /\ total_fetched' = total_fetched + Len(items)
           /\ groups' = Append(groups, GroupResult(g_i, items))
           /\ truncated' = (truncated \/ HitLimitMidGroup(Len(items), eff))
           /\ g_calls' = Append(g_calls, FetchCall(g_i, eff, GroupOffset))
    /\ g_i' = g_i + 1
    /\ UNCHANGED <<notGroup, asyncVars, db_groups, group_by, group_keys, g_pc,
                   g_err>>

GroupLoopEnd ==
    /\ g_pc = "loop"
    /\ g_i > Len(group_keys)
    /\ g_pc' = "done"
    /\ UNCHANGED <<notGroup, asyncVars, db_groups, group_by, group_keys, g_i,
                   total_fetched, truncated, groups, g_calls, g_err>>

\* group_by="status"
GroupByStatus == 1

InitGroup ==
    /\ limit \in GroupLimits
    /\ offset \in GroupOffsets
    /\ db_groups \in SeqsUpTo(GroupTotals, MaxGroups)
    /\ group_by = GroupByStatus
    /\ g_calls = <<>>
    /\ g_err = ""
    /\ AsyncIdle
    /\ group_keys = <<>>
    /\ g_pc = "start"
    /\ g_i = 0
    /\ total_fetched = 0
    /\ truncated = FALSE
    /\ groups = <<>>
    /\ PageIdle
    /\ BuildIdle
    /\ ReconIdle
    /\ RunIdle

NextGroup == RunGroupedStart \/ GroupLoopBreak \/ GroupLoopBody \/ GroupLoopEnd

SpecGroup == InitGroup /\ [][NextGroup]_vars

-----------------------------------------------------------------------------
(* run_grouped_async, and both calling conventions on one descriptor *)

\* QueryBuilder.get_distinct_group_keys_async and fetch_for_group_async: the
\* same questions to the same store, awaited.
GetDistinctGroupKeysAsync == db_groups
FetchForGroupAsync(key, lim, off) ==
    LET avail == Max(0, db_groups[key] - off)
        n == Min(lim, avail)
    IN  [k \in 1..n |-> off + k]

DistinctKeysCallAsync ==
    [op |-> "get_distinct_group_keys_async", key |-> 0, limit |-> 0, offset |-> 0]
FetchCallAsync(key, lim, off) ==
    [op |-> "fetch_for_group_async", key |-> key, limit |-> lim, offset |-> off]

\* The awaited fetch asked for the whole per-group limit.
AsyncEffectiveLimitUncapped(fetched) == PerGroupLimit

\* remaining = max_total - total_fetched
\* effective_limit = min(per_group_limit, remaining)
AsyncEffectiveLimit(fetched) == Min(PerGroupLimit, MAX_LIMIT - fetched)

AsyncBreakBeforeGroup(fetched) ==
    fetched >= MAX_LIMIT \/ AsyncEffectiveLimit(fetched) <= 0

AsyncGroupResult(key, items) ==
    [key |-> key, items |-> items,
     pagination |-> PaginationForGroup(a_group_keys[key], PerGroupLimit, GroupOffset)]

RunGroupedAsyncStart ==
    /\ a_pc = "start"
    /\ IF GetGroupConfig # ""
       THEN /\ a_err' = GetGroupConfig
            /\ a_pc' = "raised"
            /\ UNCHANGED <<a_group_keys, a_total_fetched, a_truncated, a_groups,
                           a_i, a_calls>>
       ELSE /\ a_calls' = Append(a_calls, DistinctKeysCallAsync)
            /\ a_group_keys' = GetDistinctGroupKeysAsync
            /\ a_total_fetched' = 0
            /\ a_truncated' = FALSE
            /\ a_groups' = <<>>
            /\ a_i' = 1
            /\ a_pc' = "loop"
            /\ UNCHANGED a_err
    /\ UNCHANGED <<notGroup, groupVars>>

AsyncLoopBreak ==
    /\ a_pc = "loop"
    /\ a_i <= Len(a_group_keys)
    /\ AsyncBreakBeforeGroup(a_total_fetched)
    /\ a_truncated' = TRUE
    /\ a_pc' = "done"
    /\ UNCHANGED <<notGroup, groupVars, a_group_keys, a_i, a_total_fetched,
                   a_groups, a_calls, a_err>>

AsyncLoopBody ==
    /\ a_pc = "loop"
    /\ a_i <= Len(a_group_keys)
    /\ ~AsyncBreakBeforeGroup(a_total_fetched)
    /\ LET eff == AsyncEffectiveLimit(a_total_fetched)
           items == FetchForGroupAsync(a_i, eff, GroupOffset)
       IN  /\ a_total_fetched' = a_total_fetched + Len(items)
           /\ a_groups' = Append(a_groups, AsyncGroupResult(a_i, items))
           /\ a_truncated' = (a_truncated \/ HitLimitMidGroup(Len(items), eff))
           /\ a_calls' = Append(a_calls, FetchCallAsync(a_i, eff, GroupOffset))
    /\ a_i' = a_i + 1
    /\ UNCHANGED <<notGroup, groupVars, a_group_keys, a_pc, a_err>>

AsyncLoopEnd ==
    /\ a_pc = "loop"
    /\ a_i > Len(a_group_keys)
    /\ a_pc' = "done"
    /\ UNCHANGED <<notGroup, groupVars, a_group_keys, a_i, a_total_fetched,
                   a_truncated, a_groups, a_calls, a_err>>

\* The descriptors a grouped run is called on: group_by set or not.
GroupBys == {Null, GroupByStatus}

\* One descriptor and one store; run_grouped and run_grouped_async are both
\* called on them, their steps in any order.
InitGroupBoth ==
    /\ limit \in GroupLimits
    /\ offset \in GroupOffsets
    /\ db_groups \in SeqsUpTo(GroupTotals, MaxBoth)
    /\ group_by \in GroupBys
    /\ group_keys = <<>>
    /\ g_pc = "start"
    /\ g_i = 0
    /\ total_fetched = 0
    /\ truncated = FALSE
    /\ groups = <<>>
    /\ g_calls = <<>>
    /\ g_err = ""
    /\ a_group_keys = <<>>
    /\ a_pc = "start"
    /\ a_i = 0
    /\ a_total_fetched = 0
    /\ a_truncated = FALSE
    /\ a_groups = <<>>
    /\ a_calls = <<>>
    /\ a_err = ""
    /\ PageIdle
    /\ BuildIdle
    /\ ReconIdle
    /\ RunIdle

NextGroupBoth ==
    \/ RunGroupedStart \/ GroupLoopBreak \/ GroupLoopBody \/ GroupLoopEnd
    \/ RunGroupedAsyncStart \/ AsyncLoopBreak \/ AsyncLoopBody \/ AsyncLoopEnd

SpecGroupBoth == InitGroupBoth /\ [][NextGroupBoth]_vars

\* C21: run_grouped and run_grouped_async on a descriptor whose group_by is
\* not set fail with ValueError and make no call on the data store: neither
\* the distinct-keys query nor a per-group fetch.
C21_NoGroupByRejected ==
    group_by = Null =>
        /\ g_calls = <<>> /\ a_calls = <<>>
        /\ groups = <<>> /\ a_groups = <<>>
        /\ g_pc \in {"start", "raised"}
        /\ a_pc \in {"start", "raised"}
        /\ (g_pc = "raised" => g_err = "ValueError")
        /\ (a_pc = "raised" => a_err = "ValueError")

C21_Witness ==
    /\ group_by = Null
    /\ g_pc = "raised" /\ g_err = "ValueError" /\ g_calls = <<>>
    /\ a_pc = "raised" /\ a_err = "ValueError" /\ a_calls = <<>>
    /\ Len(db_groups) > 0

-----------------------------------------------------------------------------
(* Grouped-query claims *)

RECURSIVE SumItems(_)
SumItems(gs) == IF gs = <<>> THEN 0 ELSE Len(Head(gs).items) + SumItems(Tail(gs))

\* Rows of group k left after the offset, and the rows it gets with the full
\* per-group limit.
AvailableRows(k) == Max(0, db_groups[k] - ReqOffset)
FullPage(k) == Min(ReqSize, AvailableRows(k))
\* The limit the k-th returned group was fetched with.
FetchedWith(k) == Min(ReqSize, MAX_LIMIT - SumItems(SubSeq(groups, 1, k - 1)))

SomeGroupOmitted == Len(groups) < Len(db_groups)
SomeGroupCutByCap ==
    \E k \in 1..Len(groups) :
        /\ FetchedWith(k) < ReqSize
        /\ AvailableRows(k) > Len(groups[k].items)
SomeGroupShort ==
    \E k \in 1..Len(groups) : Len(groups[k].items) < FullPage(k)

\* C1: whatever the groups, the per-group limit and the offset, the groups
\* returned by run_grouped hold at most MAX_LIMIT items in total.
C1_GlobalCap == SumItems(groups) <= MAX_LIMIT

C1_Witness ==
    /\ g_pc = "done"
    /\ Len(groups) >= 2
    /\ SumItems(groups) = MAX_LIMIT
    /\ FetchedWith(Len(groups)) < ReqSize
    /\ SumSeq(db_groups) > MAX_LIMIT

\* C2: truncated is true whenever the global cap cut off a group: a group of
\* the distinct-key list is missing from the response, or a group was fetched
\* with an effective limit below the per-group limit while it had more rows
\* left after the offset than were returned.
C2_TruncatedWhenCut ==
    g_pc = "done" => ((SomeGroupOmitted \/ SomeGroupCutByCap) => truncated)

\* C3: truncated is true only if the cap caused a shortfall: when every group
\* is in the response with all the rows the full per-group limit would have
\* given it, truncated is false.
C3_TruncatedOnlyWhenCut ==
    g_pc = "done" => (truncated => (SomeGroupOmitted \/ SomeGroupShort))

Awaited(op) ==
    CASE op = "get_distinct_group_keys" -> "get_distinct_group_keys_async"
      [] op = "fetch_for_group" -> "fetch_for_group_async"
      [] OTHER -> ""

SameCalls ==
    /\ Len(g_calls) = Len(a_calls)
    /\ \A i \in 1..Len(g_calls) :
          /\ a_calls[i].op = Awaited(g_calls[i].op)
          /\ a_calls[i].key = g_calls[i].key
          /\ a_calls[i].limit = g_calls[i].limit
          /\ a_calls[i].offset = g_calls[i].offset

BothReturned == g_pc \in {"done", "raised"} /\ a_pc \in {"done", "raised"}

\* C23: for the same descriptor and the same store answers, run_grouped and
\* run_grouped_async make the same sequence of store calls with the same
\* limits and offsets, and return the same groups and the same truncated
\* flag (or fail alike).
C23_SameInBothConventions ==
    BothReturned =>
        /\ SameCalls
        /\ groups = a_groups
        /\ truncated = a_truncated
        /\ g_pc = a_pc
        /\ g_err = a_err

C23_Witness ==
    /\ g_pc = "done" /\ a_pc = "done"
    /\ Len(a_groups) = 2
    /\ Len(a_calls) = 3
    /\ a_calls[3].limit < PerGroupLimit
    /\ a_calls[3].offset > 0
    /\ a_truncated
    /\ groups = a_groups

\* C25: in run_grouped the distinct-keys query is issued exactly once and
\* before any per-group fetch; the fetches are issued one per returned group,
\* in the key order of the distinct-keys result; the returned groups are a
\* prefix of that key list; and no fetch is issued once the rows fetched so
\* far have reached MAX_LIMIT.
C25_StoreCallOrder ==
    /\ (g_pc = "start" => g_calls = <<>>)
    /\ (g_pc \in {"loop", "done"} =>
          /\ Len(g_calls) = Len(groups) + 1
          /\ g_calls[1] = DistinctKeysCall
          /\ Len(groups) <= Len(group_keys)
          /\ group_keys = db_groups
          /\ \A k \in 1..Len(groups) :
                /\ groups[k].key = k
                /\ g_calls[k + 1].op = "fetch_for_group"
                /\ g_calls[k + 1].key = k
                /\ SumItems(SubSeq(groups, 1, k - 1)) < MAX_LIMIT)

C25_Witness ==
    /\ g_pc = "done"
    /\ Len(groups) >= 2
    /\ Len(groups) < Len(group_keys)
    /\ SumItems(groups) = MAX_LIMIT
    /\ Len(g_calls) = Len(groups) + 1
    /\ truncated

\* C22: every group returned by run_grouped carries pagination computed from
\* the group's true total, the configured per-group limit (not the effective
\* limit reduced by the cap) and the request offset: total is the group's
\* count from the distinct-keys query, size is the per-group limit, and page
\* is the page of the request offset, also for a group whose fetch was cut.
C22_GroupPagination ==
    \A k \in 1..Len(groups) :
        LET p == groups[k].pagination
            total == db_groups[groups[k].key]
            wantPages == Max(1, CeilDiv(total, ReqSize))
        IN  /\ p.total = total
            /\ p.size = ReqSize
            /\ p.pages = wantPages
            /\ p.page = Max(1, Min(FloorDiv(ReqOffset, ReqSize) + 1, wantPages))

C22_Witness ==
    /\ g_pc = "done"
    /\ \E k \in 1..Len(groups) :
          /\ FetchedWith(k) < ReqSize
          /\ Len(groups[k].items) = FetchedWith(k)
          /\ groups[k].pagination.size = ReqSize
          /\ groups[k].pagination.total = db_groups[k]
          /\ groups[k].pagination.total > Len(groups[k].items)
          /\ ReqOffset > 0

-----------------------------------------------------------------------------
(* Entity metadata, as the ORM gives it (read-only) *)

\* model.model_fields.keys(): the scalar fields, in declaration order.
ModelFields(m) ==
    CASE m = "User" -> <<"id", "name", "age">>
      [] m = "Post" -> <<"id", "title", "user_id">>
      [] m = "Comment" -> <<"id", "text">>
      [] OTHER -> <<>>

\* inspect(model).relationships
RelationshipTable ==
    {[entity |-> "User", key |-> "posts", target |-> "Post", uselist |-> TRUE],
     [entity |-> "User", key |-> "comments", target |-> "Comment", uselist |-> TRUE],
     [entity |-> "Post", key |-> "user", target |-> "User", uselist |-> FALSE],
     [entity |-> "Post", key |-> "comments", target |-> "Comment", uselist |-> TRUE]}

RelationshipKeys(m) == {r.key : r \in {x \in RelationshipTable : x.entity = m}}
Relationship(m, k) == CHOOSE r \in RelationshipTable : r.entity = m /\ r.key = k

Range(s) == {s[i] : i \in DOMAIN s}

\* sorted(names): every field name of the schema in lexicographic order,
\* filtered to the names asked for.
LexOrder == <<"age", "id", "name", "text", "title", "user_id">>
Sorted(names) == SelectSeq(LexOrder, LAMBDA f : f \in names)

-----------------------------------------------------------------------------
(* Selection trees and the selection planner: QueryBuilder._select *)

\* An entry of a selection list: a field name (a str) or a one-key mapping
\* {relation: [entries...]} (a dict).
Fld(name) == [name |-> name, rel |-> FALSE, fields |-> <<>>]
Rel(name, fields) == [name |-> name, rel |-> TRUE, fields |-> fields]

Column(m, f) == [entity |-> m, field |-> f]
Join(m, k) == [entity |-> m, key |-> k]

\* for field in fields: if isinstance(field, str): if field not in
\* model_fields: model_fields.append(field)
RECURSIVE CollectEveryField(_, _)
CollectEveryField(fields, acc) ==
    IF fields = <<>> THEN acc
    ELSE CollectEveryField(Tail(fields),
            IF ~Head(fields).rel THEN Append(acc, Head(fields).name) ELSE acc)

RECURSIVE CollectFields(_, _)
CollectFields(fields, acc) ==
    IF fields = <<>> THEN acc
    ELSE CollectFields(Tail(fields),
            IF ~Head(fields).rel /\ Head(fields).name \notin Range(acc)
            THEN Append(acc, Head(fields).name) ELSE acc)

\* if "*" in model_fields: model_fields = sorted(valid_model_fields)
ExpandWildcardAsDeclared(m, names) ==
    IF "*" \in Range(names) THEN ModelFields(m) ELSE names
ExpandWildcard(m, names) ==
    IF "*" \in Range(names) THEN Sorted(Range(ModelFields(m))) ELSE names

RECURSIVE Select(_, _)
RECURSIVE SelectRelationships(_, _, _)
\* _select(model, fields) -> (select_columns, joins); err names the exception
\* getattr(model, field) raises for a name the class does not have.
Select(m, fields) ==
    LET model_fields == ExpandWildcard(m, CollectFields(fields, <<>>))
        known == Range(ModelFields(m)) \cup RelationshipKeys(m)
        cols == [i \in DOMAIN model_fields |-> Column(m, model_fields[i])]
    IN  IF \E i \in DOMAIN model_fields : model_fields[i] \notin known
        THEN [cols |-> <<>>, joins |-> <<>>, err |-> "AttributeError"]
        ELSE SelectRelationships(m, SelectSeq(fields, LAMBDA f : f.rel),
                                 [cols |-> cols, joins |-> <<>>, err |-> ""])

SelectRelationships(m, rels, acc) ==
    IF rels = <<>> \/ acc.err # "" THEN acc
    ELSE LET r == Head(rels) IN
         IF r.name \notin RelationshipKeys(m)
         THEN SelectRelationships(m, Tail(rels), acc)   \* warning; continue
         ELSE LET nested == Select(Relationship(m, r.name).target, r.fields) IN
              IF nested.err # "" THEN [acc EXCEPT !.err = nested.err]
              ELSE SelectRelationships(m, Tail(rels),
                     [cols |-> acc.cols \o nested.cols,
                      joins |-> Append(acc.joins \o nested.joins, Join(m, r.name)),
                      err |-> ""])

-----------------------------------------------------------------------------
(* Filter trees: DefaultFieldResolver.resolve and FilterBuilder._parse *)

FILTER_OPERATORS ==
    {"eq", "ne", "gt", "lt", "gte", "lte", "cont", "starts_with", "ends_with",
     "in", "nin", "is_null", "is_not_null", "matches", "does_not_match",
     "matches_any", "matches_all", "does_not_match_any", "does_not_match_all",
     "present", "blank", "lt_any", "lteq_any", "gt_any", "gteq_any", "lt_all",
     "lteq_all", "gt_all", "gteq_all", "not_eq_all", "start", "not_start",
     "start_any", "start_all", "not_start_any", "not_start_all", "end",
     "not_end", "end_any", "end_all", "not_end_any", "not_end_all", "i_cont",
     "i_cont_any", "i_cont_all", "not_i_cont", "not_i_cont_any",
     "not_i_cont_all", "true", "false"}

\* Predicate.registry: the names the Predicate subclasses register.
PredicateRegistry == FILTER_OPERATORS

\* An item of a filter dict: key is "and", "or" or a field path (split on
\* "."); the condition is a list of sub-dicts (and/or), a dict of operators
\* (isdict) or a literal value.
Where(path, ops) ==
    [key |-> path, isdict |-> TRUE, ops |-> ops, value |-> Null, subs |-> <<>>]
WhereEq(path, v) ==
    [key |-> path, isdict |-> FALSE, ops |-> <<>>, value |-> v, subs |-> <<>>]
Combine(word, subs) ==
    [key |-> <<word>>, isdict |-> FALSE, ops |-> <<>>, value |-> Null, subs |-> subs]
Op(name, v) == [op |-> name, value |-> v]

\* Names hasattr() finds on every table model class besides its fields and
\* relationships, and on every mapped column attribute (a sample of each).
ClassAttributes == {"metadata", "model_dump"}
ColumnAttributes == {"desc", "key"}

Entity(m) == [kind |-> "entity", entity |-> m, field |-> ""]

RECURSIVE ResolveFrom(_, _)
\* The loop of resolve: "if hasattr(current, part)" takes the attribute, and
\* moves on to the related class when the attribute is a relationship;
\* otherwise AttributeError("Field {part} not found in {current}").
\* current is the class (kind "entity"), a column attribute (kind "column")
\* or any other attribute (kind "other").
ResolveFrom(current, parts) ==
    IF parts = <<>>
    THEN [err |-> "", what |-> "", kind |-> current.kind,
          entity |-> current.entity, field |-> current.field]
    ELSE LET part == Head(parts) IN
         IF current.kind = "entity" /\ part \in RelationshipKeys(current.entity)
         THEN ResolveFrom(Entity(Relationship(current.entity, part).target), Tail(parts))
         ELSE IF current.kind = "entity" /\ part \in Range(ModelFields(current.entity))
         THEN ResolveFrom([kind |-> "column", entity |-> current.entity, field |-> part],
                          Tail(parts))
         ELSE IF \/ current.kind = "entity" /\ part \in ClassAttributes
                 \/ current.kind = "column" /\ part \in ColumnAttributes
         THEN ResolveFrom([kind |-> "other", entity |-> current.entity, field |-> part],
                          Tail(parts))
         ELSE [err |-> "AttributeError", what |-> part, kind |-> current.kind,
               entity |-> current.entity, field |-> current.field]

\* DefaultFieldResolver.resolve(model, field_path)
Resolve(m, path) == ResolveFrom(Entity(m), path)

-----------------------------------------------------------------------------
(* The registered predicates: Predicate subclasses and their apply() *)

\* The expressions the predicates build: one test of a column, or a
\* conjunction / disjunction of expressions.
Test(col, sql, operand) == [kind |-> "test", col |-> col, sql |-> sql, value |-> operand]
AndOf(exprs) == [kind |-> "and", args |-> exprs]
OrOf(exprs) == [kind |-> "or", args |-> exprs]
ForEach(col, sql, values) == [i \in DOMAIN values |-> Test(col, sql, values[i])]

\* The operands None, True, False and "" among the integer-coded values.
PyTrue == 1
PyFalse == 0
EmptyString == 0 - 2000000

\* Predicate.registry[operator]().apply(column, value).  A LIKE pattern is
\* named with the test: "LIKE v%" is column.like(f"{value}%").
PredicateApply(op, col, value) ==
    CASE op = "eq" -> Test(col, "=", value)
      [] op = "ne" -> Test(col, "!=", value)
      [] op = "gt" -> Test(col, ">", value)
      [] op = "lt" -> Test(col, "<", value)
      [] op = "gte" -> Test(col, ">=", value)
      [] op = "lte" -> Test(col, "<=", value)
      [] op = "cont" -> Test(col, "contains", value)
      [] op = "starts_with" -> Test(col, "startswith", value)
      [] op = "ends_with" -> Test(col, "endswith", value)
      [] op = "in" -> Test(col, "IN", value)
      [] op = "nin" -> Test(col, "NOT IN", value)
      [] op = "is_null" -> Test(col, "IS", Null)
      [] op = "is_not_null" -> Test(col, "IS NOT", Null)
      [] op = "matches" -> Test(col, "LIKE v", value)
      [] op = "does_not_match" -> Test(col, "NOT LIKE v", value)
      [] op = "matches_any" -> OrOf(ForEach(col, "LIKE v", value))
      [] op = "matches_all" -> AndOf(ForEach(col, "LIKE v", value))
      [] op = "does_not_match_any" -> AndOf(ForEach(col, "NOT LIKE v", value))
      [] op = "does_not_match_all" -> OrOf(ForEach(col, "NOT LIKE v", value))
      [] op = "present" -> AndOf(<<Test(col, "IS NOT", Null), Test(col, "!=", EmptyString)>>)
      [] op = "blank" -> OrOf(<<Test(col, "IS", Null), Test(col, "=", EmptyString)>>)
      [] op = "lt_any" -> OrOf(ForEach(col, "<", value))
      [] op = "lteq_any" -> OrOf(ForEach(col, "<=", value))
      [] op = "gt_any" -> OrOf(ForEach(col, ">", value))
      [] op = "gteq_any" -> OrOf(ForEach(col, ">=", value))
      [] op = "lt_all" -> AndOf(ForEach(col, "<", value))
      [] op = "lteq_all" -> AndOf(ForEach(col, "<=", value))
      [] op = "gt_all" -> AndOf(ForEach(col, ">", value))
      [] op = "gteq_all" -> AndOf(ForEach(col, ">=", value))
      [] op = "not_eq_all" -> AndOf(ForEach(col, "!=", value))
      [] op = "start" -> Test(col, "LIKE v%", value)
      [] op = "not_start" -> Test(col, "NOT LIKE v%", value)
      [] op = "start_any" -> OrOf(ForEach(col, "LIKE v%", value))
      [] op = "start_all" -> AndOf(ForEach(col, "LIKE v%", value))
      [] op = "not_start_any" -> AndOf(ForEach(col, "NOT LIKE v%", value))
      [] op = "not_start_all" -> OrOf(ForEach(col, "NOT LIKE v%", value))
      [] op = "end" -> Test(col, "LIKE %v", value)
      [] op = "not_end" -> Test(col, "NOT LIKE %v", value)
      [] op = "end_any" -> OrOf(ForEach(col, "LIKE %v", value))
      [] op = "end_all" -> AndOf(ForEach(col, "LIKE %v", value))
      [] op = "not_end_any" -> AndOf(ForEach(col, "NOT LIKE %v", value))
      [] op = "not_end_all" -> OrOf(ForEach(col, "NOT LIKE %v", value))
      [] op = "i_cont" -> Test(col, "ILIKE %v%", value)
      [] op = "i_cont_any" -> OrOf(ForEach(col, "ILIKE %v%", value))
      [] op = "i_cont_all" -> AndOf(ForEach(col, "ILIKE %v%", value))
      [] op = "not_i_cont" -> Test(col, "NOT ILIKE %v%", value)
      [] op = "not_i_cont_any" -> AndOf(ForEach(col, "NOT ILIKE %v%", value))
      [] op = "not_i_cont_all" -> OrOf(ForEach(col, "NOT ILIKE %v%", value))
      [] op = "true" -> Test(col, "IS", PyTrue)
      [] op = "false" -> Test(col, "IS", PyFalse)

-----------------------------------------------------------------------------
(* FilterBuilder._parse *)

\* The accumulator of _parse: the filters list, the exception raised, the
\* operator or path segment its message names, and every expression
\* constructed so far by this call and the calls below it, in order.
NoFilters == [exprs |-> <<>>, err |-> "", what |-> "", built |-> <<>>]

\* filters.append(expr): the expression is constructed, then appended.
Built(acc, expr) == [acc EXCEPT !.exprs = Append(@, expr), !.built = Append(@, expr)]
Failing(acc, e, what) == [acc EXCEPT !.err = e, !.what = what]

RECURSIVE ParseOpsSkippingUnknown(_, _, _)
ParseOpsSkippingUnknown(col, ops, acc) ==
    IF ops = <<>> \/ acc.err # "" THEN acc
    ELSE IF Head(ops).op \notin PredicateRegistry
    THEN ParseOpsSkippingUnknown(col, Tail(ops), acc)
    ELSE ParseOpsSkippingUnknown(col, Tail(ops),
            Built(acc, PredicateApply(Head(ops).op, col, Head(ops).value)))

RECURSIVE ParseOps(_, _, _)
\* for operator, value in condition.items(): ...
ParseOps(col, ops, acc) ==
    IF ops = <<>> \/ acc.err # "" THEN acc
    ELSE LET o == Head(ops) IN
         IF o.op \notin FILTER_OPERATORS THEN Failing(acc, "ValueError", o.op)
         ELSE IF o.op \notin PredicateRegistry THEN Failing(acc, "KeyError", o.op)
         ELSE ParseOps(col, Tail(ops), Built(acc, PredicateApply(o.op, col, o.value)))

RECURSIVE ParseItems(_, _, _)
RECURSIVE ParseSubs(_, _, _)
\* _parse(model, filters_dict) -> filters
ParseItems(m, items, acc) ==
    IF items = <<>> \/ acc.err # "" THEN acc
    ELSE LET it == Head(items) IN
         IF it.key \in {<<"and">>, <<"or">>}
         THEN LET sub == ParseSubs(m, it.subs, NoFilters) IN
              IF sub.err # ""
              THEN Failing([acc EXCEPT !.built = @ \o sub.built], sub.err, sub.what)
              ELSE ParseItems(m, Tail(items),
                     Built([acc EXCEPT !.built = @ \o sub.built],
                           IF it.key = <<"and">> THEN AndOf(sub.exprs) ELSE OrOf(sub.exprs)))
         ELSE LET r == Resolve(m, it.key)
                  col == Column(r.entity, r.field)
              IN  IF r.err # "" THEN Failing(acc, r.err, r.what)
                  ELSE IF it.isdict
                  THEN ParseItems(m, Tail(items), ParseOps(col, it.ops, acc))
                  ELSE ParseItems(m, Tail(items), Built(acc, Test(col, "=", it.value)))

\* for cond in condition: conditions.extend(self._parse(model, cond))
ParseSubs(m, subs, acc) ==
    IF subs = <<>> \/ acc.err # "" THEN acc
    ELSE LET one == ParseItems(m, Head(subs), NoFilters) IN
         ParseSubs(m, Tail(subs),
                   [exprs |-> acc.exprs \o one.exprs, err |-> one.err, what |-> one.what,
                    built |-> acc.built \o one.built])

\* FilterBuilder(model).build(filters_dict)
FilterBuild(m, filters_dict) == ParseItems(m, filters_dict, NoFilters)

-----------------------------------------------------------------------------
(* QueryBuilder: the builder's attributes and the statement it compiles *)

\* QueryBuilder.__init__: select = [], filter = {}, sort = [], and the class
\* attributes limit and offset.
NewBuilder ==
    [select |-> <<>>, filter |-> <<>>, sort |-> <<>>,
     limit |-> DEFAULT_LIMIT, offset |-> DEFAULT_OFFSET]

\* select(*columns): a fresh statement with no joins, WHERE, ORDER BY, LIMIT
\* or OFFSET.
NewQuery(columns, joins) ==
    [columns |-> columns, joins |-> joins, where |-> <<>>, order_by |-> <<>>,
     limit |-> Null, offset |-> Null]

\* select(model): the whole entity is the single column description.
WholeEntity == "<entity>"
InitialQuery(m) == NewQuery(<<Column(m, WholeEntity)>>, <<>>)

\* list(self.model.model_fields.keys())
AllFields(m) == [i \in DOMAIN ModelFields(m) |-> Fld(ModelFields(m)[i])]

\* The exception propagates out of the call chain: nothing after it runs.
RaiseNaming(e, what) == b_err' = e /\ b_arg' = what /\ plan' = <<>>
Raise(e) == RaiseNaming(e, "")
Return == b_err' = "" /\ b_arg' = "" /\ plan' = Tail(plan)
Calling(method) == plan # <<>> /\ Head(plan) = method /\ b_err = ""

ApplySelect ==
    /\ Calling("select")
    /\ LET fields == IF args.select = <<>> THEN AllFields(model) ELSE args.select
           planned == Select(model, fields)
       IN  /\ qb' = [qb EXCEPT !.select = fields]
           /\ IF planned.err # ""
              THEN Raise(planned.err) /\ UNCHANGED query
              ELSE Return /\ query' = NewQuery(planned.cols, planned.joins)
    /\ UNCHANGED <<model, args, notBuild, reconVars>>

ApplyFilter ==
    /\ Calling("filter")
    /\ IF args.filter = <<>>
       THEN Return /\ UNCHANGED <<qb, query>>
       ELSE LET filters == FilterBuild(model, args.filter) IN
            /\ qb' = [qb EXCEPT !.filter = args.filter]
            /\ IF filters.err # ""
               THEN RaiseNaming(filters.err, filters.what) /\ UNCHANGED query
               ELSE /\ Return
                    /\ query' = IF filters.exprs # <<>>
                                THEN [query EXCEPT !.where = @ \o filters.exprs]
                                ELSE query
    /\ UNCHANGED <<model, args, notBuild, reconVars>>

\* A sort parameter: "-path", "+path" or "path", path split on ".".
SortBy(sign, path) == [sign |-> sign, path |-> path, mapping |-> FALSE, values |-> <<>>]
\* A sort entry given as a mapping {field: [v1, ..., vN]}.
SortByValues(field, values) ==
    [sign |-> "", path |-> <<field>>, mapping |-> TRUE, values |-> values]
Direction(sort_param) == IF sort_param.sign = "-" THEN "desc" ELSE "asc"

RECURSIVE SortNavigate(_, _)
\* The loop over field_parts: getattr(current_entity, part) on the last part,
\* getattr(current_entity, part).property.mapper.class_ on the others.
SortNavigate(current_entity, field_parts) ==
    LET part == Head(field_parts) IN
    IF Len(field_parts) = 1
    THEN IF part \in Range(ModelFields(current_entity)) \cup RelationshipKeys(current_entity)
         THEN [err |-> "", col |-> Column(current_entity, part)]
         ELSE [err |-> "AttributeError", col |-> Column(current_entity, part)]
    ELSE IF part \in RelationshipKeys(current_entity)
         THEN SortNavigate(Relationship(current_entity, part).target, Tail(field_parts))
         ELSE [err |-> "AttributeError", col |-> Column(current_entity, part)]

RECURSIVE SortLoop(_, _)
\* for sort_param in sort: ... self.query = self.query.order_by(...)
\* q is [query, err]; the ORDER BY terms added before a failing parameter stay.
\* sort_param.startswith is called on every entry: an entry that is not a str
\* (a mapping) has no such method.
SortLoop(sort, q) ==
    IF sort = <<>> \/ q.err # "" THEN q
    ELSE IF Head(sort).mapping THEN [q EXCEPT !.err = "AttributeError"]
    ELSE IF q.query.columns = <<>> THEN [q EXCEPT !.err = "IndexError"]
    ELSE LET sort_param == Head(sort)
             current_entity == q.query.columns[1].entity
             found == SortNavigate(current_entity, sort_param.path)
         IN  IF found.err # "" THEN [q EXCEPT !.err = found.err]
             ELSE SortLoop(Tail(sort),
                    [q EXCEPT !.query.order_by = Append(@,
                        [col |-> found.col, direction |-> Direction(sort_param)])])

ApplySort ==
    /\ Calling("sort")
    /\ IF args.sort = <<>>
       THEN Return /\ UNCHANGED <<qb, query>>
       ELSE LET sorted == SortLoop(args.sort, [query |-> query, err |-> ""]) IN
            /\ qb' = [qb EXCEPT !.sort = args.sort]
            /\ query' = sorted.query
            /\ IF sorted.err # "" THEN Raise(sorted.err) ELSE Return
    /\ UNCHANGED <<model, args, notBuild, reconVars>>

\* "if not x": None and 0 are both falsy.
Falsy(x) == x = Null \/ x = 0

\* A negative limit taken as given.
KeepNegative(n, default) == n

\* if limit < 0: self.limit = DEFAULT_LIMIT (likewise offset and DEFAULT_OFFSET)
Clamp(n, default) == IF n < 0 THEN default ELSE n

ApplyLimit ==
    /\ Calling("limit")
    /\ IF Falsy(args.limit)
       THEN UNCHANGED <<qb, query>>
       ELSE LET applied == Clamp(args.limit, DEFAULT_LIMIT) IN
            /\ qb' = [qb EXCEPT !.limit = applied]
            /\ query' = [query EXCEPT !.limit = applied]
    /\ Return
    /\ UNCHANGED <<model, args, notBuild, reconVars>>

ApplyOffset ==
    /\ Calling("offset")
    /\ IF Falsy(args.offset)
       THEN UNCHANGED <<qb, query>>
       ELSE LET applied == Clamp(args.offset, DEFAULT_OFFSET) IN
            /\ qb' = [qb EXCEPT !.offset = applied]
            /\ query' = [query EXCEPT !.offset = applied]
    /\ Return
    /\ UNCHANGED <<model, args, notBuild, reconVars>>

\* build(): apply_select, apply_filter, apply_sort, apply_limit, apply_offset.
BuildChain == <<"select", "filter", "sort", "limit", "offset">>

-----------------------------------------------------------------------------
(* Building a query: QueryBuilder(model).build(select, filter, sort, limit,
   offset) over a small set of arguments *)

BuildModels == {"User", "Post"}

\* [] stands for None as well: apply_select tests "if not fields".
BuildSelections ==
    {<<>>,
     <<Fld("id")>>,
     <<Fld("id"), Fld("name"), Rel("posts", <<Fld("id"), Fld("title")>>)>>,
     <<Fld("id"), Rel("user", <<Fld("name")>>)>>,
     <<Rel("posts", <<Fld("title")>>)>>,
     <<Fld("nickname")>>}

BuildFilters ==
    {<<>>,
     <<Where(<<"id">>, <<Op("gt", 0)>>)>>,
     <<Where(<<"posts", "title">>, <<Op("eq", 21)>>)>>,
     <<Where(<<"user", "name">>, <<Op("eq", 11)>>)>>,
     <<WhereEq(<<"id">>, 1), Where(<<"id">>, <<Op("lt", 3), Op("between", 2)>>)>>,
     <<Combine("or", << <<WhereEq(<<"id">>, 1)>>,
                        <<Where(<<"user", "age">>, <<Op("gte", 30)>>)>> >>)>>}

BuildSorts ==
    {<<>>,
     <<SortBy("-", <<"id">>)>>,
     <<SortBy("", <<"posts", "title">>)>>,
     <<SortBy("+", <<"id">>), SortBy("-", <<"user", "name">>)>>,
     <<SortBy("", <<"id">>), SortBy("", <<"id", "title">>)>>,
     <<SortByValues("id", <<2, 1>>)>>}

BuildLimits == {Null, 0, 0 - 3, 5}
BuildOffsets == {Null, 0, 0 - 3, 5}

InitBuild ==
    /\ model \in BuildModels
    /\ args \in [select : BuildSelections, filter : BuildFilters,
                 sort : BuildSorts, limit : BuildLimits, offset : BuildOffsets]
    /\ plan = BuildChain
    /\ qb = NewBuilder
    /\ query = InitialQuery(model)
    /\ b_err = ""
    /\ b_arg = ""
    /\ limit = Null
    /\ offset = Null
    /\ PageIdle
    /\ GroupIdle
    /\ ReconIdle
    /\ RunIdle

NextBuild == ApplySelect \/ ApplyFilter \/ ApplySort \/ ApplyLimit \/ ApplyOffset

SpecBuild == InitBuild /\ [][NextBuild]_vars

-----------------------------------------------------------------------------
(* Joins required by filter and sort paths *)

RECURSIVE TraversedFrom(_, _)
\* The relationships a dotted path walks through, starting at an entity.
TraversedFrom(current, parts) ==
    IF parts = <<>> \/ Head(parts) \notin RelationshipKeys(current) THEN {}
    ELSE {Join(current, Head(parts))}
         \cup TraversedFrom(Relationship(current, Head(parts)).target, Tail(parts))

RECURSIVE FilterPaths(_)
RECURSIVE FilterPathsOfSubs(_)
FilterPaths(items) ==
    IF items = <<>> THEN {}
    ELSE (IF Head(items).key \in {<<"and">>, <<"or">>}
          THEN FilterPathsOfSubs(Head(items).subs)
          ELSE {Head(items).key})
         \cup FilterPaths(Tail(items))
FilterPathsOfSubs(subs) ==
    IF subs = <<>> THEN {}
    ELSE FilterPaths(Head(subs)) \cup FilterPathsOfSubs(Tail(subs))

SortPaths(sort) == {sort[i].path : i \in DOMAIN sort}

BuildReturned == plan = <<>> /\ b_err = "" /\ model # ""

\* C10: after build returns, every relationship traversed by a filter field
\* path or by a sort field path has a join in the compiled query, also when
\* the selection does not name that relationship.
C10_JoinsForPaths ==
    BuildReturned =>
        \A path \in FilterPaths(args.filter) \cup SortPaths(args.sort) :
            TraversedFrom(model, path) \subseteq Range(query.joins)

-----------------------------------------------------------------------------
(* The store: a few rows per entity, every value an integer *)

MaxRows == 3
MaxSel == 3

Ids(m) ==
    CASE m = "User" -> {1, 2}
      [] m = "Post" -> {1, 2, 3}
      [] m = "Comment" -> {1, 2}
      [] OTHER -> {}

\* The value of a column in the row of entity m with primary key id.  Posts 1
\* and 2 belong to user 1 and carry the same title; post 3 belongs to user 2.
Value(m, id, f) ==
    CASE f = "id" -> id
      [] m = "User" /\ f = "name" -> 10 + id
      [] m = "User" /\ f = "age" -> 30
      [] m = "Post" /\ f = "title" -> IF id = 3 THEN 22 ELSE 21
      [] m = "Post" /\ f = "user_id" -> IF id = 3 THEN 2 ELSE 1
      [] m = "Comment" /\ f = "text" -> 30 + id
      [] OTHER -> Null

\* The ON condition of a relationship's join, between row a of the owning
\* entity and row b of the target.  Both comments are written by user 1 on
\* post 1.
Linked(j, a, b) ==
    CASE j = Join("User", "posts") -> Value("Post", b, "user_id") = a
      [] j = Join("Post", "user") -> Value("Post", a, "user_id") = b
      [] j = Join("User", "comments") -> a = 1
      [] j = Join("Post", "comments") -> a = 1
      [] OTHER -> FALSE

JoinTarget(j) == Relationship(j.entity, j.key).target
FromEntities(q) == {q.columns[i].entity : i \in DOMAIN q.columns}
                   \cup {q.joins[i].entity : i \in DOMAIN q.joins}
                   \cup {JoinTarget(q.joins[i]) : i \in DOMAIN q.joins}

\* One row of the joined tables per combination of entity rows that satisfies
\* every join.
Bindings(q) ==
    {b \in [FromEntities(q) -> 1..3] :
        /\ \A e \in FromEntities(q) : b[e] \in Ids(e)
        /\ \A i \in DOMAIN q.joins :
              Linked(q.joins[i], b[q.joins[i].entity], b[JoinTarget(q.joins[i])])}

ResultRow(q, b) ==
    [i \in DOMAIN q.columns |->
        Value(q.columns[i].entity, b[q.columns[i].entity], q.columns[i].field)]

\* Each entity is joined at most once and the root is not joined to itself.
SingleUseOfEntities(m, joins) ==
    /\ \A i, k \in DOMAIN joins : i # k => JoinTarget(joins[i]) # JoinTarget(joins[k])
    /\ \A i \in DOMAIN joins : JoinTarget(joins[i]) # m

-----------------------------------------------------------------------------
(* Result reconstruction: reconstruct_object *)

NoKwargs == [f \in {} |-> Null]
NoRelated == [r \in {} |-> <<>>]

SetItem(d, k, v) == [x \in DOMAIN d \cup {k} |-> IF x = k THEN v ELSE d[x]]

\* model(**obj_kwargs): a table model keeps the keyword arguments that name
\* its fields and drops the others.
Construct(m, obj_kwargs) ==
    [f \in DOMAIN obj_kwargs \cap Range(ModelFields(m)) |-> obj_kwargs[f]]

\* setattr(obj, relation_name, rel_objs) for a list relationship,
\* rel_objs[0] for a to-one relationship.
Attach(m, related_objs) ==
    [r \in DOMAIN related_objs |->
        IF Relationship(m, r).uselist
        THEN [many |-> TRUE, objs |-> related_objs[r]]
        ELSE [many |-> FALSE, objs |-> <<related_objs[r][1]>>]]

RECURSIVE ReconstructObject(_, _, _, _)
RECURSIVE ReconstructFields(_, _, _, _)
\* reconstruct_object(model, fields, row, field_idx).  st carries field_idx[0]
\* (idx), the exception raised (err), the slot assignments made (log) and the
\* number of objects under construction in this row (n), which with the row
\* number identifies the instance.
ReconstructObject(m, fields, row, st) ==
    LET done == ReconstructFields(m, fields, row,
                    [idx |-> st.idx, err |-> st.err, log |-> st.log,
                     n |-> st.n + 1, row_no |-> st.row_no,
                     obj_kwargs |-> NoKwargs, related_objs |-> NoRelated])
    IN  [obj |-> IF done.err # "" THEN <<>>
                 ELSE [entity |-> m,
                       oid |-> <<st.row_no, st.n>>,
                       kw |-> Construct(m, done.obj_kwargs),
                       rel |-> Attach(m, done.related_objs)],
         idx |-> done.idx, err |-> done.err, log |-> done.log, n |-> done.n,
         row_no |-> st.row_no]

ReconstructFields(m, fields, row, acc) ==
    IF fields = <<>> \/ acc.err # "" THEN acc
    ELSE LET field == Head(fields) IN
         IF ~field.rel
         THEN IF acc.idx >= Len(row)
              THEN [acc EXCEPT !.err = "IndexError"]
              ELSE ReconstructFields(m, Tail(fields), row,
                     [acc EXCEPT !.obj_kwargs = SetItem(@, field.name, row[acc.idx + 1]),
                                 !.log = Append(@, Column(m, field.name)),
                                 !.idx = @ + 1])
         ELSE IF field.name \notin RelationshipKeys(m)
              THEN [acc EXCEPT !.err = "KeyError"]
              ELSE LET related == ReconstructObject(Relationship(m, field.name).target,
                                                    field.fields, row, acc)
                   IN  IF related.err # ""
                       THEN [acc EXCEPT !.err = related.err, !.log = related.log]
                       ELSE ReconstructFields(m, Tail(fields), row,
                              [acc EXCEPT
                                 !.idx = related.idx, !.log = related.log, !.n = related.n,
                                 !.related_objs = SetItem(@, field.name,
                                     IF field.name \in DOMAIN @
                                     THEN Append(@[field.name], related.obj)
                                     ELSE <<related.obj>>)])

-----------------------------------------------------------------------------
(* Result reconstruction: reconstruct_objects and fetch *)

\* a == b on two entity objects.  A build whose model equality compares the
\* declared fields gives "fields"; one that compares the whole instance
\* dictionary, ORM state included, tells any two instances apart ("identity").
EqualityModes == {"fields", "identity"}
ObjEq(a, b) ==
    IF eq_by = "fields" THEN a.entity = b.entity /\ a.kw = b.kw
    ELSE a.oid = b.oid

\* new_rel in existing_rels, on a list.
ContainsNever(existing_rels, new_rel) == FALSE
Contains(existing_rels, new_rel) ==
    \E i \in DOMAIN existing_rels : ObjEq(existing_rels[i], new_rel)

RECURSIVE ExtendWithNew(_, _)
\* for new_rel in new_rels: if new_rel not in existing_rels: append
ExtendWithNew(existing_rels, new_rels) ==
    IF new_rels = <<>> THEN existing_rels
    ELSE ExtendWithNew(
            IF Contains(existing_rels, Head(new_rels)) THEN existing_rels
            ELSE Append(existing_rels, Head(new_rels)),
            Tail(new_rels))

\* Two relationship attribute values compare equal: lists element by element,
\* single objects by ObjEq.
RelValEq(a, b) ==
    /\ a.many = b.many
    /\ Len(a.objs) = Len(b.objs)
    /\ \A i \in DOMAIN a.objs : ObjEq(a.objs[i], b.objs[i])

\* Iterating an entity object yields its (name, value) pairs, the relationship
\* attributes among them; "pair in existing" holds for every pair of new.
AllPairsPresent(existing, new) ==
    /\ \A f \in DOMAIN new.kw : f \in DOMAIN existing.kw /\ existing.kw[f] = new.kw[f]
    /\ \A r \in DOMAIN new.rel :
          r \in DOMAIN existing.rel /\ RelValEq(existing.rel[r], new.rel[r])

RECURSIVE MergeLoop(_, _, _)
\* for relation_name in self.select: if isinstance(relation_name, dict): ...
\* m is [obj, err]: the existing object and the exception raised.  On a list
\* the new related objects are appended; a single related object has no
\* append, so a pair that is not found raises AttributeError.
MergeLoop(select, new_obj, m) ==
    IF select = <<>> \/ m.err # "" THEN m
    ELSE LET rel_name == Head(select).name IN
         IF ~Head(select).rel THEN MergeLoop(Tail(select), new_obj, m)
         ELSE IF m.obj.rel[rel_name].many
         THEN MergeLoop(Tail(select), new_obj,
                [m EXCEPT !.obj.rel[rel_name].objs =
                    ExtendWithNew(@, new_obj.rel[rel_name].objs)])
         ELSE IF AllPairsPresent(m.obj.rel[rel_name].objs[1], new_obj.rel[rel_name].objs[1])
         THEN MergeLoop(Tail(select), new_obj, m)
         ELSE [m EXCEPT !.err = "AttributeError"]

\* getattr(obj, id_field.name): None when the id was not among the keywords.
ObjId(obj) == IF "id" \in DOMAIN obj.kw THEN obj.kw["id"] ELSE Null

\* reconstructed: the dict of objects by id, in insertion order.
Known(obj_id) == {i \in DOMAIN reconstructed : reconstructed[i].id = obj_id}

AtRow == /\ plan # <<>> /\ Head(plan) = "reconstruct_objects" /\ b_err = ""
         /\ r_i <= Len(rows)

\* field_idx = [0]; obj, field_idx = self.reconstruct_object(model, self.select, row, field_idx)
Decoded ==
    ReconstructObject(model, qb.select, rows[r_i],
        [idx |-> 0, err |-> "", log |-> <<>>, n |-> 0, row_no |-> r_i])

\* db.exec(self.query).all(): the store answers with some of the joined rows,
\* in some order.
Exec ==
    /\ Calling("fetch")
    /\ \E n \in 0..MaxRows :
          \E pick \in [1..n -> Bindings(query)] :
             /\ \A i, k \in 1..n : i # k => pick[i] # pick[k]
             /\ rows' = [i \in 1..n |-> ResultRow(query, pick[i])]
             /\ row_roots' = [i \in 1..n |-> pick[i][model]]
    /\ r_i' = 1
    /\ reconstructed' = <<>>
    /\ plan' = <<"reconstruct_objects">> \o Tail(plan)
    /\ UNCHANGED <<model, args, qb, query, b_err, b_arg, r_log, eq_by, serialized,
                   notBuild>>

\* One turn of "for row in results".
ReconstructRow ==
    /\ AtRow
    /\ r_log' = Decoded.log
    /\ IF Decoded.err # ""
       THEN Raise(Decoded.err) /\ UNCHANGED <<reconstructed, r_i>>
       ELSE LET obj == Decoded.obj
                obj_id == ObjId(obj)
            IN  IF Known(obj_id) # {}
                THEN LET at == CHOOSE i \in Known(obj_id) : TRUE
                         merged == MergeLoop(qb.select, obj,
                                      [obj |-> reconstructed[at].obj, err |-> ""])
                     IN  /\ reconstructed' = [reconstructed EXCEPT ![at].obj = merged.obj]
                         /\ IF merged.err # ""
                            THEN Raise(merged.err) /\ UNCHANGED r_i
                            ELSE r_i' = r_i + 1 /\ UNCHANGED <<plan, b_err, b_arg>>
                ELSE /\ reconstructed' = Append(reconstructed, [id |-> obj_id, obj |-> obj])
                     /\ r_i' = r_i + 1
                     /\ UNCHANGED <<plan, b_err, b_arg>>
    /\ UNCHANGED <<model, args, qb, query, rows, row_roots, eq_by, serialized,
                   notBuild>>

\* return list(reconstructed.values())
ReconstructReturn ==
    /\ plan # <<>> /\ Head(plan) = "reconstruct_objects" /\ b_err = ""
    /\ r_i > Len(rows)
    /\ Return
    /\ UNCHANGED <<model, args, qb, query, reconVars, notBuild>>

\* The selection entries the requests are made of, per root entity.
SelectionEntries(m) ==
    CASE m = "User" ->
           {Fld("id"), Fld("name"), Fld("*"),
            Rel("posts", <<Fld("id"), Fld("title")>>),
            Rel("posts", <<Fld("title")>>),
            Rel("tags", <<Fld("id")>>)}
      [] m = "Post" ->
           {Fld("id"), Fld("title"),
            Rel("user", <<Fld("id"), Fld("name")>>),
            Rel("user", <<Fld("id"), Rel("comments", <<Fld("id")>>)>>),
            Rel("comments", <<Fld("id")>>)}
      [] OTHER -> {}

Selections(m) == UNION {[1..k -> SelectionEntries(m)] : k \in 1..MaxSel}

\* QueryBuilder(model).apply_select(select).fetch(db, model), for a selection
\* the planner and the store accept.
FetchChain == <<"select", "fetch">>

InitRecon ==
    /\ model \in BuildModels
    /\ \E sel \in Selections(model) :
          /\ Select(model, sel).err = ""
          /\ Select(model, sel).cols # <<>>
          /\ SingleUseOfEntities(model, Select(model, sel).joins)
          /\ args = [select |-> sel, filter |-> <<>>, sort |-> <<>>,
                     limit |-> Null, offset |-> Null]
    /\ plan = FetchChain
    /\ qb = NewBuilder
    /\ query = InitialQuery(model)
    /\ b_err = ""
    /\ b_arg = ""
    /\ rows = <<>>
    /\ row_roots = <<>>
    /\ r_i = 0
    /\ reconstructed = <<>>
    /\ r_log = <<>>
    /\ eq_by \in EqualityModes
    /\ serialized = <<>>
    /\ limit = Null
    /\ offset = Null
    /\ PageIdle
    /\ GroupIdle
    /\ RunIdle

NextRecon == ApplySelect \/ Exec \/ ReconstructRow \/ ReconstructReturn

SpecRecon == InitRecon /\ [][NextRecon]_vars

-----------------------------------------------------------------------------
(* Serialization: QueryBuilder.serialize and _serialize_object *)

MaxSerSel == 2

\* The values of a serialized dictionary.
Scalar(v) == [kind |-> "scalar", v |-> v]
ListOf(items) == [kind |-> "list", items |-> items]
Nested(d) == [kind |-> "object", d |-> d]
NoneValue == [kind |-> "null"]
Raw == [kind |-> "attribute"]
EmptyDict == [k \in {} |-> NoneValue]

\* hasattr(obj, name) on an instance of a table model: its fields, its
\* relationships and the attributes of the class.
HasAttr(m, name) ==
    name \in Range(ModelFields(m)) \cup RelationshipKeys(m) \cup ClassAttributes

\* getattr(obj, name) for a field name: the value, None when it was not set.
GetField(obj, name) ==
    IF name \in DOMAIN obj.kw THEN Scalar(obj.kw[name])
    ELSE IF name \in Range(ModelFields(obj.entity)) THEN Scalar(Null)
    ELSE Raw

\* getattr(obj, relation_name): what was attached, else the empty collection
\* of a to-many relationship or the None of a to-one relationship.
GetRelated(obj, name) ==
    IF name \in DOMAIN obj.rel THEN obj.rel[name]
    ELSE [many |-> Relationship(obj.entity, name).uselist, objs |-> <<>>]

RECURSIVE SerializeObject(_, _)
RECURSIVE SerializeFields(_, _, _)
\* _serialize_object(obj, fields)
SerializeObject(obj, fields) == SerializeFields(obj, fields, EmptyDict)

\* for field in fields: a str is copied when hasattr(obj, field) holds; a
\* dict serializes the related object(s) with the nested fields.
SerializeFields(obj, fields, result) ==
    IF fields = <<>> THEN result
    ELSE LET field == Head(fields) IN
         IF ~HasAttr(obj.entity, field.name)
         THEN SerializeFields(obj, Tail(fields), result)
         ELSE IF ~field.rel
         THEN SerializeFields(obj, Tail(fields),
                SetItem(result, field.name, GetField(obj, field.name)))
         ELSE IF field.name \notin RelationshipKeys(obj.entity)
         THEN SerializeFields(obj, Tail(fields), SetItem(result, field.name, Raw))
         ELSE LET related_obj == GetRelated(obj, field.name) IN
              SerializeFields(obj, Tail(fields),
                SetItem(result, field.name,
                  IF related_obj.many
                  THEN ListOf([i \in DOMAIN related_obj.objs |->
                                  SerializeObject(related_obj.objs[i], field.fields)])
                  ELSE IF related_obj.objs = <<>> THEN NoneValue
                  ELSE Nested(SerializeObject(related_obj.objs[1], field.fields))))

\* serialize(objects): [self._serialize_object(obj, self.select) for obj in objects]
Serialize ==
    /\ Calling("serialize")
    /\ serialized' = [i \in DOMAIN reconstructed |->
                         SerializeObject(reconstructed[i].obj, qb.select)]
    /\ Return
    /\ UNCHANGED <<model, args, qb, query, rows, row_roots, r_i, reconstructed,
                   r_log, eq_by, notBuild>>

\* The selection entries of the serialized requests.
SerializeEntries(m) ==
    CASE m = "User" ->
           {Fld("id"), Fld("name"), Fld("*"),
            Rel("posts", <<Fld("id"), Fld("title")>>),
            Rel("posts", <<Fld("*")>>)}
      [] m = "Post" ->
           {Fld("id"), Fld("title"),
            Rel("user", <<Fld("id"), Fld("name")>>)}
      [] OTHER -> {}

SerializeSelections(m) == UNION {[1..k -> SerializeEntries(m)] : k \in 1..MaxSerSel}

\* QueryBuilder(model).apply_select(select); fetch(db, model); serialize(data)
SerializeChain == <<"select", "fetch", "serialize">>

InitSerialize ==
    /\ model \in BuildModels
    /\ \E sel \in SerializeSelections(model) :
          /\ Select(model, sel).err = ""
          /\ SingleUseOfEntities(model, Select(model, sel).joins)
          /\ args = [select |-> sel, filter |-> <<>>, sort |-> <<>>,
                     limit |-> Null, offset |-> Null]
    /\ plan = SerializeChain
    /\ qb = NewBuilder
    /\ query = InitialQuery(model)
    /\ b_err = ""
    /\ b_arg = ""
    /\ rows = <<>>
    /\ row_roots = <<>>
    /\ r_i = 0
    /\ reconstructed = <<>>
    /\ r_log = <<>>
    /\ eq_by \in EqualityModes
    /\ serialized = <<>>
    /\ limit = Null
    /\ offset = Null
    /\ PageIdle
    /\ GroupIdle
    /\ RunIdle

NextSerialize == ApplySelect \/ Exec \/ ReconstructRow \/ ReconstructReturn \/ Serialize

SpecSerialize == InitSerialize /\ [][NextSerialize]_vars

\* The keys the selection names on entity m: "*" names every scalar field.
SelectedKeys(m, fields) ==
    UNION {IF fields[i].name = "*" /\ ~fields[i].rel
           THEN Range(ModelFields(m)) ELSE {fields[i].name} : i \in DOMAIN fields}

RECURSIVE FollowsSelection(_, _, _)
\* d is the dictionary the selection `fields` on entity m asks for.
FollowsSelection(d, m, fields) ==
    /\ DOMAIN d = SelectedKeys(m, fields)
    /\ \A i \in DOMAIN fields :
          fields[i].rel =>
              LET v == d[fields[i].name]
                  r == Relationship(m, fields[i].name)
              IN  IF r.uselist
                  THEN /\ v.kind = "list"
                       /\ \A k \in DOMAIN v.items :
                             FollowsSelection(v.items[k], r.target, fields[i].fields)
                  ELSE \/ v.kind = "null"
                       \/ /\ v.kind = "object"
                          /\ FollowsSelection(v.d, r.target, fields[i].fields)

SerializeReturned == plan = <<>> /\ b_err = "" /\ model # "" /\ serialized # <<>>

\* C24: serialize returns for each object a dictionary whose keys are exactly
\* the fields named by the selection tree, "*" standing for all scalar fields
\* of the entity, nested relations serialized the same way, a to-many relation
\* as a list and a null to-one relation as null.
C24_SerializeFollowsSelection ==
    SerializeReturned =>
        /\ Len(serialized) = Len(reconstructed)
        /\ \A i \in DOMAIN serialized :
              FollowsSelection(serialized[i], model, qb.select)

-----------------------------------------------------------------------------
(* Properties of result reconstruction *)

RECURSIVE Dedupe(_, _)
\* The sequence without its repeated elements, first occurrences kept.
Dedupe(seq, acc) ==
    IF seq = <<>> THEN acc
    ELSE Dedupe(Tail(seq), IF Head(seq) \in Range(acc) THEN acc ELSE Append(acc, Head(seq)))

Names(fields) == [i \in DOMAIN fields |-> fields[i].name]
PlainScalars(m, fields) ==
    /\ \A i \in DOMAIN fields : ~fields[i].rel /\ fields[i].name \in Range(ModelFields(m))
    /\ \A i, k \in DOMAIN fields : i # k => fields[i].name # fields[k].name

\* A selection [scalars..., {relation: [scalars...]}] on a to-many relation,
\* the primary key among the root scalars.
OneToManyShape(m, sel) ==
    /\ Len(sel) >= 2
    /\ sel[Len(sel)].rel
    /\ sel[Len(sel)].name \in RelationshipKeys(m)
    /\ Relationship(m, sel[Len(sel)].name).uselist
    /\ PlainScalars(m, SubSeq(sel, 1, Len(sel) - 1))
    /\ "id" \in Range(Names(SubSeq(sel, 1, Len(sel) - 1)))
    /\ PlainScalars(Relationship(m, sel[Len(sel)].name).target, sel[Len(sel)].fields)

\* Where the compiled query carries a column, and what a row holds for it.
SlotOf(c) == CHOOSE i \in DOMAIN query.columns : query.columns[i] = c
Cell(row, m, f) == row[SlotOf(Column(m, f))]
Projection(row, m, names) == [f \in Range(names) |-> Cell(row, m, f)]

RowKeys == [i \in DOMAIN rows |-> Cell(rows[i], model, "id")]
RowsOfKey(k) == SelectSeq(rows, LAMBDA row : Cell(row, model, "id") = k)
ToManyEntry == qb.select[Len(qb.select)]
RelatedOfKey(k) ==
    LET of_key == RowsOfKey(k) IN
    [i \in DOMAIN of_key |->
        Projection(of_key[i], Relationship(model, ToManyEntry.name).target,
                   Names(ToManyEntry.fields))]
Collection(i) ==
    LET objs == reconstructed[i].obj.rel[ToManyEntry.name].objs IN
    [j \in DOMAIN objs |-> objs[j].kw]

Fetched == model # "" /\ r_i >= 1
FetchReturned == Fetched /\ plan = <<>> /\ b_err = ""

RowAttempted == Fetched /\ rows # <<>> /\ (r_i > 1 \/ b_err # "")

\* C8: for every selection the planner accepts, decoding a row consumes
\* exactly as many slots as the planner emitted columns, and assigns the k-th
\* slot to the field the planner's k-th column selects.
C8_SlotsFollowColumns ==
    RowAttempted =>
        /\ b_err \notin {"IndexError", "KeyError"}
        /\ r_log = query.columns

MergesIntoExisting ==
    /\ AtRow
    /\ Decoded.err = ""
    /\ ObjId(Decoded.obj) # Null
    /\ Known(ObjId(Decoded.obj)) # {}

\* C9: decoding a row whose root key matches an object already built raises
\* nothing and changes only that object's to-many collections: scalar fields
\* and to-one relations of the objects built so far stay as they were.
C9_MergeTouchesOnlyToMany ==
    [][MergesIntoExisting =>
          /\ b_err' = ""
          /\ Len(reconstructed') = Len(reconstructed)
          /\ \A i \in DOMAIN reconstructed :
                /\ reconstructed'[i].id = reconstructed[i].id
                /\ reconstructed'[i].obj.kw = reconstructed[i].obj.kw
                /\ \A r \in DOMAIN reconstructed[i].obj.rel :
                      ~reconstructed[i].obj.rel[r].many =>
                          reconstructed'[i].obj.rel[r] = reconstructed[i].obj.rel[r]]_vars

-----------------------------------------------------------------------------
(* The selection planner on its own: QueryBuilder(model).apply_select(fields)
   for every selection list of up to MaxSel entries *)

\* Entries with repeated and wildcard names below a relation, besides the
\* entries used for fetching.
PlanEntries(m) ==
    SelectionEntries(m) \cup
    (CASE m = "User" ->
            {Rel("posts", <<Fld("id"), Fld("title"), Fld("id")>>),
             Rel("posts", <<Fld("id"), Fld("*"), Fld("title")>>)}
       [] m = "Post" ->
            {Fld("*"),
             Rel("user", <<Fld("name"), Fld("name"), Fld("id")>>)}
       [] OTHER -> {})

PlanSelections(m) == UNION {[1..k -> PlanEntries(m)] : k \in 1..MaxSel}

SelectOnly == <<"select">>

InitPlan ==
    /\ model \in BuildModels
    /\ \E sel \in PlanSelections(model) :
          args = [select |-> sel, filter |-> <<>>, sort |-> <<>>,
                  limit |-> Null, offset |-> Null]
    /\ plan = SelectOnly
    /\ qb = NewBuilder
    /\ query = InitialQuery(model)
    /\ b_err = ""
    /\ b_arg = ""
    /\ limit = Null
    /\ offset = Null
    /\ PageIdle
    /\ GroupIdle
    /\ ReconIdle
    /\ RunIdle

NextPlan == ApplySelect

SpecPlan == InitPlan /\ [][NextPlan]_vars

Planned == model # "" /\ plan = <<>> /\ b_err = ""

\* C11: the join list the planner produces holds each relationship at most
\* once, also when several entries of the selection name the same relation.
C11_EachJoinOnce ==
    Planned =>
        \A i, k \in DOMAIN query.joins : i # k => query.joins[i] # query.joins[k]

RECURSIVE WithoutRepeats(_, _)
\* The selection list with every repeated scalar name removed (the first
\* occurrence stays), in the nested lists as well.
WithoutRepeats(fields, seen) ==
    IF fields = <<>> THEN <<>>
    ELSE LET f == Head(fields) IN
         IF f.rel
         THEN <<Rel(f.name, WithoutRepeats(f.fields, {}))>> \o WithoutRepeats(Tail(fields), seen)
         ELSE IF f.name \in seen THEN WithoutRepeats(Tail(fields), seen)
         ELSE <<f>> \o WithoutRepeats(Tail(fields), seen \cup {f.name})

\* C12: the planner returns, for a selection list with repeated scalar names,
\* the ordered column list it returns for the list without the repeats, at
\* every nesting level.
C12_DuplicatesIgnored ==
    Planned =>
        /\ Select(model, WithoutRepeats(args.select, {})).err = ""
        /\ query.columns = Select(model, WithoutRepeats(args.select, {})).cols

C12_Witness ==
    /\ Planned
    /\ model = "User"
    /\ args.select = <<Fld("id"), Fld("id"),
                       Rel("posts", <<Fld("id"), Fld("title"), Fld("id")>>)>>
    /\ query.columns = <<Column("User", "id"), Column("Post", "id"),
                         Column("Post", "title")>>

\* The scalar fields of each entity in lexicographic order of their names.
AllScalarsInOrder(m) ==
    CASE m = "User" -> <<Column("User", "age"), Column("User", "id"), Column("User", "name")>>
      [] m = "Post" -> <<Column("Post", "id"), Column("Post", "title"), Column("Post", "user_id")>>
      [] m = "Comment" -> <<Column("Comment", "id"), Column("Comment", "text")>>
      [] OTHER -> <<>>

ColumnsOf(m) == SelectSeq(query.columns, LAMBDA c : c.entity = m)
HasWildcard(fields) == \E i \in DOMAIN fields : ~fields[i].rel /\ fields[i].name = "*"
EntriesOn(m, k) == {i \in DOMAIN args.select : args.select[i].rel /\ args.select[i].name = k}

\* C13: when "*" is among the scalar entries of a selection list, the planner
\* emits for that entity all its scalar fields, each once, in lexicographic
\* order, whatever other scalar names are listed with it and wherever; for the
\* root list and for the list of a relation named once in the selection.
C13_WildcardExpansion ==
    Planned =>
        /\ HasWildcard(args.select) => ColumnsOf(model) = AllScalarsInOrder(model)
        /\ \A i \in DOMAIN args.select :
              (/\ args.select[i].rel
               /\ args.select[i].name \in RelationshipKeys(model)
               /\ EntriesOn(model, args.select[i].name) = {i}
               /\ HasWildcard(args.select[i].fields))
              => ColumnsOf(Relationship(model, args.select[i].name).target)
                    = AllScalarsInOrder(Relationship(model, args.select[i].name).target)

C13_Witness ==
    /\ Planned
    /\ model = "User"
    /\ Len(args.select) = 3
    /\ args.select[1] = Fld("name")
    /\ args.select[2] = Fld("*")
    /\ args.select[3] = Rel("posts", <<Fld("id"), Fld("*"), Fld("title")>>)
    /\ Len(query.columns) = 6

-----------------------------------------------------------------------------
(* Filtering on its own: QueryBuilder(model).apply_filter(filter_dict) for
   filter dicts of up to MaxItems items, and for one operator on one field *)

MaxItems == 2

NullOperators == {"is_null", "is_not_null"}
ListOperators ==
    {"in", "nin", "matches_any", "matches_all", "does_not_match_any",
     "does_not_match_all", "lt_any", "lteq_any", "gt_any", "gteq_any", "lt_all",
     "lteq_all", "gt_all", "gteq_all", "not_eq_all", "start_any", "start_all",
     "not_start_any", "not_start_all", "end_any", "end_all", "not_end_any",
     "not_end_all", "i_cont_any", "i_cont_all", "not_i_cont_any",
     "not_i_cont_all"}

\* The operands an operator is given: a boolean for the null tests, a list
\* for the operators that take one, a single value for the others.
Operands(op) ==
    IF op \in NullOperators THEN {PyTrue, PyFalse}
    ELSE IF op \in ListOperators THEN {<<11>>, <<11, 12>>}
    ELSE {11}

FilterItems ==
    {Where(<<"id">>, <<Op("gt", 0)>>),
     Where(<<"id">>, <<Op("lt", 3), Op("bogus_op", 1)>>),
     Where(<<"age">>, <<Op("bogus_op", 1), Op("eq", 30)>>),
     WhereEq(<<"title">>, 21),
     Where(<<"posts", "title">>, <<Op("eq", 21)>>),
     Where(<<"nickname">>, <<Op("eq", 11)>>),
     Where(<<"metadata">>, <<Op("eq", 1)>>),
     Combine("and", << <<WhereEq(<<"id">>, 1)>>,
                       <<Where(<<"user_id">>, <<Op("between", 1)>>)>> >>),
     Combine("or", << <<Where(<<"id">>, <<Op("gte", 2)>>),
                        Where(<<"id", "desc">>, <<Op("eq", 1)>>)>>,
                      <<Combine("and", << <<Where(<<"id">>, <<Op("bogus_op", 2)>>)>> >>)>> >>)}

\* A dict has each key once.
FilterDicts ==
    {d \in UNION {[1..k -> FilterItems] : k \in 1..MaxItems} :
        \A i, k \in DOMAIN d : i # k => d[i].key # d[k].key}

FilterOnly == <<"filter">>

InitFilter ==
    /\ model \in BuildModels
    /\ \/ \E d \in FilterDicts :
             args = [select |-> <<>>, filter |-> d, sort |-> <<>>,
                     limit |-> Null, offset |-> Null]
       \/ \E op \in FILTER_OPERATORS : \E v \in Operands(op) :
             args = [select |-> <<>>, filter |-> <<Where(<<"name">>, <<Op(op, v)>>)>>,
                     sort |-> <<>>, limit |-> Null, offset |-> Null]
    /\ plan = FilterOnly
    /\ qb = NewBuilder
    /\ query = InitialQuery(model)
    /\ b_err = ""
    /\ b_arg = ""
    /\ limit = Null
    /\ offset = Null
    /\ PageIdle
    /\ GroupIdle
    /\ ReconIdle
    /\ RunIdle

NextFilter == ApplyFilter

SpecFilter == InitFilter /\ [][NextFilter]_vars

FilterDone == model # "" /\ plan = <<>>

RECURSIVE UnknownOperators(_)
RECURSIVE UnknownOperatorsOfSubs(_)
\* The operator names of a filter tree that the registry does not hold.
UnknownOperators(items) ==
    IF items = <<>> THEN {}
    ELSE (IF Head(items).key \in {<<"and">>, <<"or">>}
          THEN UnknownOperatorsOfSubs(Head(items).subs)
          ELSE {Head(items).ops[i].op : i \in DOMAIN Head(items).ops} \ PredicateRegistry)
         \cup UnknownOperators(Tail(items))
UnknownOperatorsOfSubs(subs) ==
    IF subs = <<>> THEN {}
    ELSE UnknownOperators(Head(subs)) \cup UnknownOperatorsOfSubs(Tail(subs))

AllPathsResolve(m, items) == \A path \in FilterPaths(items) : Resolve(m, path).err = ""

RejectedAsUnsupported ==
    /\ b_err = "ValueError"
    /\ b_arg \in UnknownOperators(args.filter)
    /\ query.where = <<>>
    /\ query = InitialQuery(model)

\* C14 as stated: every filter tree that holds an operator name absent from
\* the registry, at any position, is rejected with the unsupported-operator
\* error naming that operator, and no WHERE clause is added.
C14_UnknownOperatorRejected ==
    (FilterDone /\ UnknownOperators(args.filter) # {}) => RejectedAsUnsupported

\* C14, amended: the same for every such tree whose field paths all resolve.
C14_UnknownOperatorRejectedWhenPathsResolve ==
    (FilterDone /\ UnknownOperators(args.filter) # {} /\ AllPathsResolve(model, args.filter))
        => RejectedAsUnsupported

C14_Witness ==
    /\ FilterDone
    /\ model = "Post"
    /\ Len(args.filter) = 2
    /\ args.filter[1] = Where(<<"id">>, <<Op("gt", 0)>>)
    /\ args.filter[2].key = <<"and">>
    /\ AllPathsResolve(model, args.filter)
    /\ b_err = "ValueError"
    /\ b_arg = "between"
    /\ query.where = <<>>

\* The filter is {field: {operator: operand}} and was applied.
OneOperatorApplied ==
    /\ FilterDone
    /\ b_err = ""
    /\ Len(args.filter) = 1
    /\ args.filter[1].isdict
    /\ Len(args.filter[1].ops) = 1
    /\ Len(query.where) = 1

TheOperator == args.filter[1].ops[1].op
TheOperand == args.filter[1].ops[1].value

\* C15: is_null with operand true tests IS NULL and with operand false tests
\* IS NOT NULL; is_not_null with operand true tests IS NOT NULL and with
\* operand false tests IS NULL.
C15_NullTestsFollowOperand ==
    (OneOperatorApplied /\ TheOperator \in NullOperators) =>
        /\ query.where[1].kind = "test"
        /\ query.where[1].value = Null
        /\ query.where[1].sql =
              IF (TheOperator = "is_null") = (TheOperand = PyTrue) THEN "IS" ELSE "IS NOT"

\* The registered operator names that end in _any, and those that end in _all.
AnyOperators ==
    {"matches_any", "does_not_match_any", "lt_any", "lteq_any", "gt_any",
     "gteq_any", "start_any", "not_start_any", "end_any", "not_end_any",
     "i_cont_any", "not_i_cont_any"}
AllOperators ==
    {"matches_all", "does_not_match_all", "lt_all", "lteq_all", "gt_all",
     "gteq_all", "not_eq_all", "start_all", "not_start_all", "end_all",
     "not_end_all", "i_cont_all", "not_i_cont_all"}

\* C16: for a list operand, an operator whose name ends in _any joins one
\* test per element with OR, and one whose name ends in _all joins them with
\* AND, the negated variants included.
C16_AnyIsOrAllIsAnd ==
    (OneOperatorApplied /\ TheOperator \in AnyOperators \cup AllOperators) =>
        /\ query.where[1].kind = IF TheOperator \in AnyOperators THEN "or" ELSE "and"
        /\ Len(query.where[1].args) = Len(TheOperand)
        /\ \A i \in DOMAIN TheOperand :
              /\ query.where[1].args[i].kind = "test"
              /\ query.where[1].args[i].value = TheOperand[i]

RECURSIVE Offending(_, _)
\* Following relationships from entity m, the first segment of the path that
\* is neither a scalar field nor a relationship of the entity it is sought
\* on ("" when there is none; a scalar field ends the walk).
Offending(m, path) ==
    IF path = <<>> THEN ""
    ELSE IF Head(path) \in RelationshipKeys(m)
    THEN Offending(Relationship(m, Head(path)).target, Tail(path))
    ELSE IF Head(path) \in Range(ModelFields(m)) THEN ""
    ELSE Head(path)

RECURSIVE ScalarReached(_, _)
\* The column a path of relationships ending in a scalar field leads to, as
\* <<entity, field>>; <<>> for any other path.
ScalarReached(m, path) ==
    IF path = <<>> THEN <<>>
    ELSE IF Len(path) = 1
    THEN IF Head(path) \in Range(ModelFields(m)) THEN <<m, Head(path)>> ELSE <<>>
    ELSE IF Head(path) \in RelationshipKeys(m)
    THEN ScalarReached(Relationship(m, Head(path)).target, Tail(path))
    ELSE <<>>

OnePathFiltered ==
    /\ FilterDone
    /\ Len(args.filter) = 1
    /\ args.filter[1].key \notin {<<"and">>, <<"or">>}

ThePath == args.filter[1].key

\* C17: resolve returns, for a path of relationships ending in a scalar
\* field, the column of that field on the entity reached; and it fails with
\* the field-not-found error naming the segment for every path with a segment
\* that is neither a scalar field nor a relationship of the entity it is
\* sought on.
C17_ResolveContract ==
    OnePathFiltered =>
        /\ ScalarReached(model, ThePath) # <<>> =>
              /\ b_err # "AttributeError"
              /\ b_err = "" =>
                    \A i \in DOMAIN query.where :
                        query.where[i].kind = "test" =>
                        query.where[i].col = Column(ScalarReached(model, ThePath)[1],
                                                    ScalarReached(model, ThePath)[2])
        /\ Offending(model, ThePath) # "" =>
              /\ b_err = "AttributeError"
              /\ b_arg = Offending(model, ThePath)

-----------------------------------------------------------------------------
(* Properties of sorting and of limit / offset in build *)

\* build got as far as apply_sort: apply_select and apply_filter returned.
SortReached ==
    /\ model # ""
    /\ plan = <<>>
    /\ Select(model, IF args.select = <<>> THEN AllFields(model) ELSE args.select).err = ""
    /\ FilterBuild(model, args.filter).err = ""

\* C18: a sort entry given as a mapping {field: [v1, ..., vN]} is accepted by
\* apply_sort and adds an ORDER BY term on that field that ranks the listed
\* values in the order given.
C18_ValueOrderAccepted ==
    (SortReached /\ \E i \in DOMAIN args.sort : args.sort[i].mapping) =>
        /\ b_err = ""
        /\ Len(query.order_by) = Len(args.sort)
        /\ \A i \in DOMAIN args.sort :
              args.sort[i].mapping =>
                  /\ query.order_by[i].col.field = args.sort[i].path[1]
                  /\ "rank" \in DOMAIN query.order_by[i]

\* C19: a negative limit or offset is not an error: build returns, and the
\* compiled query carries LIMIT DEFAULT_LIMIT for a negative limit and OFFSET
\* DEFAULT_OFFSET for a negative offset.
C19_NegativeClamped ==
    /\ (model # "" /\ plan = <<>> /\ b_err # "") =>
          \/ ~SortReached
          \/ SortLoop(args.sort, [query |-> query, err |-> ""]).err # ""
    /\ BuildReturned =>
          /\ (~Falsy(args.limit) /\ args.limit < 0) => query.limit = DEFAULT_LIMIT
          /\ (~Falsy(args.offset) /\ args.offset < 0) => query.offset = DEFAULT_OFFSET

C19_Witness ==
    /\ BuildReturned
    /\ args.limit < 0 /\ args.limit # Null
    /\ args.offset < 0 /\ args.offset # Null
    /\ query.limit = DEFAULT_LIMIT
    /\ query.offset = DEFAULT_OFFSET
    /\ qb.limit = DEFAULT_LIMIT
    /\ qb.offset = DEFAULT_OFFSET

-----------------------------------------------------------------------------
(* Querymate.run and Querymate.run_paginated: the shape of the answer *)

\* The keyword force_pagination is not passed.
NotGiven == "not given"
ForcePagination == {NotGiven, "True", "False"}

\* The number of rows the built query returns from a table of total rows:
\* OFFSET offset when offset is truthy, LIMIT limit when limit is truthy.
RowsReturned(total) ==
    LET skip == IF Falsy(offset) THEN 0 ELSE Clamp(offset, DEFAULT_OFFSET)
        left == IF total > skip THEN total - skip ELSE 0
    IN  IF Falsy(limit) THEN left
        ELSE IF left < Clamp(limit, DEFAULT_LIMIT) THEN left
        ELSE Clamp(limit, DEFAULT_LIMIT)

\* The LIMIT of the query build() compiled: none (Null) when self.limit is
\* falsy, since apply_limit then returns before query.limit is called.
QueryLimit == IF Falsy(limit) THEN Null ELSE Clamp(limit, DEFAULT_LIMIT)

\* run_raw(self, db, model): build, then query_builder.fetch(db, model).
RunRaw ==
    /\ run_call = NotCalled
    /\ run_call' = [method |-> "run_raw", force_pagination |-> NotGiven]
    /\ run_result' = [NoResult EXCEPT !.shape = "objects",
                                      !.items = RowsReturned(p_total),
                                      !.query_limit = QueryLimit]
    /\ UNCHANGED <<limit, offset, pageVars, groupVars, asyncVars, buildVars,
                   reconVars, include_pagination>>

\* run(self, db, model): the parameters are db and model only, so a call that
\* passes force_pagination is rejected by the interpreter before the body
\* runs; otherwise the body returns query_builder.serialize(data), a list.
Run(f) ==
    /\ run_call = NotCalled
    /\ run_call' = [method |-> "run", force_pagination |-> f]
    /\ run_result' =
          IF f # NotGiven
          THEN [NoResult EXCEPT !.raised = "TypeError"]
          ELSE [NoResult EXCEPT !.shape = "list", !.items = RowsReturned(p_total),
                                !.query_limit = QueryLimit]
    /\ UNCHANGED <<limit, offset, pageVars, groupVars, asyncVars, buildVars,
                   reconVars, include_pagination>>

\* run_paginated(self, db, model): PaginatedResponse(items, pagination).
RunPaginated ==
    /\ run_call = NotCalled
    /\ run_call' = [method |-> "run_paginated", force_pagination |-> NotGiven]
    /\ run_result' = [NoResult EXCEPT !.shape = "items+pagination",
                                      !.query_limit = QueryLimit,
                                      !.items = RowsReturned(p_total),
                                      !.pagination = Pagination(p_total)]
    /\ UNCHANGED <<limit, offset, pageVars, groupVars, asyncVars, buildVars,
                   reconVars, include_pagination>>

InitRun ==
    /\ limit \in {Null} \cup (1..MaxSize)
    /\ offset \in {Null} \cup (0..MaxOffset)
    /\ p_total \in 0..MaxTotal
    /\ p_call = "idle"
    /\ p_info = NoInfo
    /\ include_pagination \in BOOLEAN
    /\ run_call = NotCalled
    /\ run_result = NoResult
    /\ GroupIdle
    /\ BuildIdle
    /\ ReconIdle

NextRun == (\E f \in ForcePagination : Run(f)) \/ RunRaw \/ RunPaginated

SpecRun == InitRun /\ [][NextRun]_vars

\* C20: run(db, model, force_pagination=f) answers {"items", "pagination"}
\* when f is True and a plain list when f is False; when f is not given,
\* include_pagination decides: true gives {"items", "pagination"}, false a
\* plain list.
C20_ShapeFollowsFlags ==
    run_call.method = "run" =>
        LET f == run_call.force_pagination
            paginated == IF f = NotGiven THEN include_pagination ELSE f = "True"
        IN  /\ run_result.raised = ""
            /\ run_result.shape = IF paginated THEN "items+pagination" ELSE "list"

-----------------------------------------------------------------------------
(* What a failing filter build has constructed *)

\* The expressions FilterBuilder.build constructed on the filter of this
\* state, up to its return or to the exception.
ConstructedByBuild == FilterBuild(model, args.filter).built

\* C26: a filter tree with an unknown operator name or an unresolvable field
\* path is rejected before any expression is built: on every failing build no
\* predicate has been applied to any column when the error is raised,
\* whatever the position of the offending entry in the tree.
C26_RejectedBeforeBuilding ==
    (FilterDone /\ b_err # "") => ConstructedByBuild = <<>>

-----------------------------------------------------------------------------
(* Root objects of selections without the primary key *)

RECURSIVE WildcardFree(_)
WildcardFree(fields) ==
    \A i \in DOMAIN fields :
        IF fields[i].rel THEN WildcardFree(fields[i].fields) ELSE fields[i].name # "*"

\* C27: for every valid selection tree, also one without the root entity's
\* primary key, reconstruct_objects returns one object per distinct root
\* entity present in the rows: rows of different root entities are never
\* merged into one object.
C27_OneObjectPerRoot ==
    (FetchReturned /\ WildcardFree(qb.select)) =>
        Len(reconstructed) = Cardinality(Range(row_roots))

-----------------------------------------------------------------------------
(* The entity sort keys are resolved from *)

\* Every sort key is a string that names a path from the builder's model.
SortKeysOfRoot ==
    /\ args.sort # <<>>
    /\ \A i \in DOMAIN args.sort :
          /\ ~args.sort[i].mapping
          /\ SortNavigate(model, args.sort[i].path).err = ""

\* C28: apply_sort resolves every sort key starting from the builder's root
\* entity type, whatever the selection is: also when the first selected column
\* belongs to a related entity, a sort key naming a root field orders by the
\* root entity's column.
C28_SortFromRoot ==
    (SortReached /\ SortKeysOfRoot) =>
        /\ b_err = ""
        /\ Len(query.order_by) = Len(args.sort)
        /\ \A i \in DOMAIN args.sort :
              query.order_by[i].col = SortNavigate(model, args.sort[i].path).col

-----------------------------------------------------------------------------
(* The result cap of run, run_raw and run_paginated *)

Executed ==
    /\ run_call.method \in {"run", "run_raw", "run_paginated"}
    /\ run_result.raised = ""

\* C29: every query executed by run, run_raw and run_paginated carries a row
\* limit between 1 and MAX_LIMIT, for every descriptor that passes validation
\* (a null limit included); and run_paginated never returns more items than
\* the pagination.size it reports.
C29_ResultCap ==
    Executed =>
        /\ run_result.query_limit # Null
        /\ 1 <= run_result.query_limit
        /\ run_result.query_limit <= MAX_LIMIT
        /\ (run_call.method = "run_paginated" =>
               run_result.items <= run_result.pagination.size)

-----------------------------------------------------------------------------
(* The apply_* calls in any order *)

\* One call of each apply_* method, in every order.
CallOrders ==
    {p \in [1..Len(BuildChain) -> Range(BuildChain)] :
        \A i, k \in 1..Len(BuildChain) : i # k => p[i] # p[k]}

PermSelections ==
    {<<>>,
     <<Fld("id"), Fld("name")>>,
     <<Fld("id"), Rel("posts", <<Fld("title")>>)>>}
PermFilters == {<<>>, <<Where(<<"id">>, <<Op("gt", 0)>>)>>}
PermSorts == {<<>>, <<SortBy("-", <<"id">>)>>}
PermLimits == {Null, 5}
PermOffsets == {Null, 5}

InitPerm ==
    /\ model = "User"
    /\ args \in [select : PermSelections, filter : PermFilters,
                 sort : PermSorts, limit : PermLimits, offset : PermOffsets]
    /\ plan \in CallOrders
    /\ qb = NewBuilder
    /\ query = InitialQuery(model)
    /\ b_err = ""
    /\ b_arg = ""
    /\ limit = Null
    /\ offset = Null
    /\ PageIdle
    /\ GroupIdle
    /\ ReconIdle
    /\ RunIdle

NextPerm == ApplySelect \/ ApplyFilter \/ ApplySort \/ ApplyLimit \/ ApplyOffset

SpecPerm == InitPerm /\ [][NextPerm]_vars

\* What build(select, filter, sort, limit, offset) compiles on a new builder
\* for the arguments of this state: the five calls in build's order.
QueryOfBuild ==
    LET fields == IF args.select = <<>> THEN AllFields(model) ELSE args.select
        planned == Select(model, fields)
        filters == IF args.filter = <<>> THEN NoFilters
                   ELSE FilterBuild(model, args.filter)
        selected == NewQuery(planned.cols, planned.joins)
        filtered == [selected EXCEPT !.where = @ \o filters.exprs]
        sorted == SortLoop(args.sort, [query |-> filtered, err |-> ""])
        limited == IF Falsy(args.limit) THEN sorted.query
                   ELSE [sorted.query EXCEPT !.limit = Clamp(args.limit, DEFAULT_LIMIT)]
        skipped == IF Falsy(args.offset) THEN limited
                   ELSE [limited EXCEPT !.offset = Clamp(args.offset, DEFAULT_OFFSET)]
    IN  [query |-> skipped,
         err |-> IF planned.err # "" THEN planned.err
                 ELSE IF filters.err # "" THEN filters.err
                 ELSE sorted.err]

\* build() itself arrives at QueryOfBuild.
BuildGivesQueryOfBuild ==
    (model # "" /\ plan = <<>>) =>
        /\ b_err = QueryOfBuild.err
        /\ b_err = "" => query = QueryOfBuild.query

\* C30: the compiled query does not depend on the order of the apply_* calls:
\* for any permutation of one apply_select, apply_filter, apply_sort,
\* apply_limit and apply_offset call with the same arguments, the final query
\* has the columns, joins, WHERE, ORDER BY, LIMIT and OFFSET of the one built
\* by build(); apply_select after apply_filter keeps the filter.
C30_OrderIndependent ==
    (model # "" /\ plan = <<>> /\ QueryOfBuild.err = "") =>
        /\ b_err = ""
        /\ query = QueryOfBuild.query

====
